---------------------------- MODULE Spec2Model ----------------------------
(***************************************************************************)
(* Restaurant search of binger_backend: the hybrid search endpoint         *)
(* (search_restaurants), the merge of the two providers' results           *)
(* (_merge_restaurant_results), the duplicate test                         *)
(* (_is_duplicate_restaurant, _similarity) and the image enrichment        *)
(* (GoogleImageService.fetch_images_for_restaurants).                      *)
(*                                                                         *)
(* A Python str is a sequence of one-character strings, so that lower(),   *)
(* split(), endswith() and the "in" substring test are computed and not    *)
(* assumed.  A restaurant dict is a record with the three keys the code    *)
(* under study reads: restaurant_name, city and images.                    *)
(***************************************************************************)
EXTENDS Integers, Sequences, FiniteSets, TLC

VARIABLES
    \* direct call of _merge_restaurant_results
    openai_results,      \* parameter openai_results
    gemini_results,      \* parameter gemini_results
    merge_ret,           \* [returned, value]: the value the call returned
    merge_ret_again,     \* [returned, value]: the value a second call with
                         \* the same arguments returned
    merge_steps,         \* history: the list merged before each OpenAI record
                         \* is evaluated, and after the last one
    \* direct call of _is_duplicate_restaurant
    restaurant,          \* parameter restaurant
    existing_list,       \* parameter existing_list
    dup_ret,             \* [returned, value]: the value the call returned
    dup_ret_again,       \* [returned, value]: the value a second call with
                         \* the same arguments returned
    dup_sims,            \* history: the value of _similarity for each entry
                         \* of existing_list the loop visited
    \* direct calls of _similarity
    sim_s1,              \* the first name
    sim_s2,              \* the second name
    sim_ret,             \* [returned, value]: what _similarity(s1, s2) returned
                         \* for s1 the first name and s2 the second
    sim_ret_swapped,     \* [returned, value]: what _similarity(s1, s2) returned
                         \* for s1 the second name and s2 the first
    \* one request to POST /search (search_restaurants)
    mode,                \* request.mode
    pc,                  \* the handler's position
    openai_restaurants,  \* local openai_restaurants (hybrid mode)
    gemini_restaurants,  \* local gemini_restaurants (hybrid mode)
    restaurants,         \* local restaurants
    openai_status,       \* "not_called", "pending", "returned" or "raised"
    gemini_status,       \* "not_called", "pending", "returned" or "raised"
    before_images,       \* history: restaurants as handed to the image service
    image_log,           \* history: what the image service did with each record
    response,            \* "none", "ok" (200 with restaurants) or "error_500"
    \* the database and the requests to the endpoints that use it
    watchlist_items,     \* table watchlist_items, in insertion order
    saved_restaurants,   \* table saved_restaurants, in insertion order
    user_settings,       \* table user_settings, in insertion order
    shareable_links,     \* table shareable_links, in insertion order
    inflight,            \* requests that have run their query and have not
                         \* yet committed their insert
    last,                \* the request answered last and its response
    budget,              \* the number of requests still to be made
    first_token,         \* history: per user, the token of the row inserted
                         \* for the user first ("none" before)
    link_event           \* history: per user, the owner's last successful
                         \* create ("created") or revoke ("revoked") request

mergeVars == <<openai_results, gemini_results, merge_ret, merge_ret_again, merge_steps>>
dupVars == <<restaurant, existing_list, dup_ret, dup_ret_again, dup_sims>>
simVars == <<sim_s1, sim_s2, sim_ret, sim_ret_swapped>>
requestVars == <<mode, pc, openai_restaurants, gemini_restaurants, restaurants,
                 openai_status, gemini_status, before_images, image_log, response>>

apiVars == <<watchlist_items, saved_restaurants, user_settings, shareable_links,
             inflight, last, budget, first_token, link_event>>

vars == <<mergeVars, dupVars, simVars, requestVars, apiVars>>

---------------------------------------------------------------------------
(* Python str helpers *)

UpperLetters == <<"A","B","C","D","E","F","G","H","I","J","K","L","M",
                  "N","O","P","Q","R","S","T","U","V","W","X","Y","Z">>
LowerLetters == <<"a","b","c","d","e","f","g","h","i","j","k","l","m",
                  "n","o","p","q","r","s","t","u","v","w","x","y","z">>

\* the characters str.split() with no argument treats as separators
Whitespace == {" ", "\t", "\n"}

\* the lower-case letter of each upper-case letter
ToLower ==
    [c \in {UpperLetters[i] : i \in DOMAIN UpperLetters} |->
        LowerLetters[CHOOSE i \in DOMAIN UpperLetters : UpperLetters[i] = c]]

LowerChar(c) == IF c \in DOMAIN ToLower THEN ToLower[c] ELSE c

\* str.lower()
lower(s) == [i \in 1..Len(s) |-> LowerChar(s[i])]

\* str.endswith(suffix)
endswith(s, suffix) ==
    /\ Len(suffix) <= Len(s)
    /\ SubSeq(s, Len(s) - Len(suffix) + 1, Len(s)) = suffix

\* the substring test  pat in s
contains(s, pat) ==
    \E i \in 1..(Len(s) - Len(pat) + 1) : SubSeq(s, i, i + Len(pat) - 1) = pat

\* str.split() with no argument: the list of the maximal runs of
\* non-whitespace characters, scanned left to right
RECURSIVE SplitFrom(_, _, _)
SplitFrom(s, i, cur) ==
    IF i > Len(s)
    THEN (IF cur = <<>> THEN <<>> ELSE <<cur>>)
    ELSE IF s[i] \in Whitespace
         THEN (IF cur = <<>>
               THEN SplitFrom(s, i + 1, <<>>)
               ELSE <<cur>> \o SplitFrom(s, i + 1, <<>>))
         ELSE SplitFrom(s, i + 1, Append(cur, s[i]))

split(s) == SplitFrom(s, 1, <<>>)

\* set(list)
set(l) == {l[i] : i \in DOMAIN l}

\* list[:n]
Take(l, n) == SubSeq(l, 1, IF Len(l) < n THEN Len(l) ELSE n)

---------------------------------------------------------------------------
(* _similarity: a float ratio is kept as the exact fraction num/den.  The  *)
(* only use of the value is the comparison with the literal 0.7; for the   *)
(* small integers involved the correctly rounded quotient exceeds the      *)
(* double 0.7 exactly when 10 * num > 7 * den.                             *)

ZeroRatio == [num |-> 0, den |-> 1]

SimilarityThresholdTenths == 7

\* ratio > 0.7
ExceedsThreshold_AtLeast(ratio) == 10 * ratio.num >= SimilarityThresholdTenths * ratio.den

ExceedsThreshold(ratio) == 10 * ratio.num > SimilarityThresholdTenths * ratio.den

OneRatio == [num |-> 1, den |-> 1]

Similarity_EqualIsOne(s1, s2) ==
    IF s1 = s2
    THEN OneRatio
    ELSE LET words1 == set(split(s1))
             words2 == set(split(s2))
             intersection == words1 \cap words2
             union == words1 \cup words2
         IN  IF union # {}
             THEN [num |-> Cardinality(intersection), den |-> Cardinality(union)]
             ELSE ZeroRatio

Similarity_OverChars(s1, s2) ==
    IF s1 = <<>> \/ s2 = <<>>
    THEN ZeroRatio
    ELSE LET words1 == set(s1)
             words2 == set(s2)
             intersection == words1 \cap words2
             union == words1 \cup words2
         IN  [num |-> Cardinality(intersection), den |-> Cardinality(union)]

Similarity_OverFirst(s1, s2) ==
    IF s1 = <<>> \/ s2 = <<>>
    THEN ZeroRatio
    ELSE LET words1 == set(split(s1))
             words2 == set(split(s2))
         IN  IF words1 = {} \/ words2 = {}
             THEN ZeroRatio
             ELSE [num |-> Cardinality(words1 \cap words2),
                   den |-> Cardinality(words1)]

_similarity(s1, s2) ==
    IF s1 = <<>> \/ s2 = <<>>
    THEN ZeroRatio
    ELSE LET words1 == set(split(s1))
             words2 == set(split(s2))
         IN  IF words1 = {} \/ words2 = {}
             THEN ZeroRatio
             ELSE LET intersection == words1 \cap words2
                      union == words1 \cup words2
                  IN  IF union # {}
                      THEN [num |-> Cardinality(intersection),
                            den |-> Cardinality(union)]
                      ELSE ZeroRatio

RECURSIVE DuplicateFrom_CaseSensitive(_, _, _, _)
DuplicateFrom_CaseSensitive(name, city, existing_list_, i) ==
    IF i > Len(existing_list_)
    THEN FALSE
    ELSE LET existing == existing_list_[i]
             existing_name == existing.restaurant_name
             existing_city == existing.city
         IN  IF ExceedsThreshold(_similarity(name, existing_name)) /\ city = existing_city
             THEN TRUE
             ELSE DuplicateFrom_CaseSensitive(name, city, existing_list_, i + 1)

RECURSIVE DuplicateFrom_DefaultTrue(_, _, _, _)
DuplicateFrom_DefaultTrue(name, city, existing_list_, i) ==
    IF i > Len(existing_list_)
    THEN TRUE
    ELSE LET existing == existing_list_[i]
             existing_name == lower(existing.restaurant_name)
             existing_city == lower(existing.city)
         IN  IF ExceedsThreshold(_similarity(name, existing_name)) /\ city = existing_city
             THEN TRUE
             ELSE DuplicateFrom_DefaultTrue(name, city, existing_list_, i + 1)

\* the loop of _is_duplicate_restaurant from entry i on: the first match returns
RECURSIVE DuplicateFrom(_, _, _, _)
DuplicateFrom(name, city, existing_list_, i) ==
    IF i > Len(existing_list_)
    THEN FALSE
    ELSE LET existing == existing_list_[i]
             existing_name == lower(existing.restaurant_name)
             existing_city == lower(existing.city)
         IN  IF ExceedsThreshold(_similarity(name, existing_name)) /\ city = existing_city
             THEN TRUE
             ELSE DuplicateFrom(name, city, existing_list_, i + 1)

\* the values of _similarity(name, existing_name) the loop of
\* _is_duplicate_restaurant computes from entry i on, up to the first match
RECURSIVE SimsFrom(_, _, _, _)
SimsFrom(name, city, existing_list_, i) ==
    IF i > Len(existing_list_)
    THEN <<>>
    ELSE LET existing == existing_list_[i]
             existing_name == lower(existing.restaurant_name)
             existing_city == lower(existing.city)
             sim == _similarity(name, existing_name)
         IN  IF ExceedsThreshold(sim) /\ city = existing_city
             THEN <<sim>>
             ELSE <<sim>> \o SimsFrom(name, city, existing_list_, i + 1)

DuplicateSims(restaurant_, existing_list_) ==
    SimsFrom(lower(restaurant_.restaurant_name), lower(restaurant_.city),
             existing_list_, 1)

IsDuplicate_FirstEntryOnly(restaurant_, existing_list_) ==
    LET name == lower(restaurant_.restaurant_name)
        city == lower(restaurant_.city)
    IN  DuplicateFrom(name, city, Take(existing_list_, 1), 1)

IsDuplicate_NameOnly(restaurant_, existing_list_) ==
    \E i \in DOMAIN existing_list_ :
        ExceedsThreshold(_similarity(lower(restaurant_.restaurant_name),
                                     lower(existing_list_[i].restaurant_name)))

_is_duplicate_restaurant(restaurant_, existing_list_) ==
    LET name == lower(restaurant_.restaurant_name)
        city == lower(restaurant_.city)
    IN  DuplicateFrom(name, city, existing_list_, 1)

---------------------------------------------------------------------------
(* _merge_restaurant_results *)

PlaceholderSuffix == <<"p", "l", "a", "c", "e", "h", "o", "l", "d", "e", "r", ".", "j", "p", "g">>

MergeLimit == 5
MinResults == 3

\* truthiness of a str
Truthy(img) == img # <<>>

\* images and all(img for img in images if img and not img.endswith("placeholder.jpg"))
\* the generator yields only the entries that pass the filter, and all() then
\* asks each yielded entry to be truthy
has_real_images(images) ==
    /\ images # <<>>
    /\ \A i \in DOMAIN images :
          (Truthy(images[i]) /\ ~endswith(images[i], PlaceholderSuffix))
              => Truthy(images[i])

RECURSIVE AddOpenAI_AtMost(_, _, _)
AddOpenAI_AtMost(openai_results_, i, merged) ==
    IF i > Len(openai_results_)
    THEN merged
    ELSE LET ai_restaurant == openai_results_[i]
             images == ai_restaurant.images
         IN  IF /\ ~_is_duplicate_restaurant(ai_restaurant, merged)
                /\ (has_real_images(images) \/ Len(merged) <= MinResults)
             THEN AddOpenAI_AtMost(openai_results_, i + 1, Append(merged, ai_restaurant))
             ELSE AddOpenAI_AtMost(openai_results_, i + 1, merged)

RECURSIVE AddOpenAI_NoDuplicateTest(_, _, _)
AddOpenAI_NoDuplicateTest(openai_results_, i, merged) ==
    IF i > Len(openai_results_)
    THEN merged
    ELSE LET ai_restaurant == openai_results_[i]
             images == ai_restaurant.images
         IN  IF has_real_images(images) \/ Len(merged) < MinResults
             THEN AddOpenAI_NoDuplicateTest(openai_results_, i + 1,
                                            Append(merged, ai_restaurant))
             ELSE AddOpenAI_NoDuplicateTest(openai_results_, i + 1, merged)

\* the second loop of _merge_restaurant_results from entry i on
RECURSIVE AddOpenAI(_, _, _)
AddOpenAI(openai_results_, i, merged) ==
    IF i > Len(openai_results_)
    THEN merged
    ELSE LET ai_restaurant == openai_results_[i]
             images == ai_restaurant.images
         IN  IF /\ ~_is_duplicate_restaurant(ai_restaurant, merged)
                /\ (has_real_images(images) \/ Len(merged) < MinResults)
             THEN AddOpenAI(openai_results_, i + 1, Append(merged, ai_restaurant))
             ELSE AddOpenAI(openai_results_, i + 1, merged)

MergedBeforeLimit_OpenAIFirst(openai_results_, gemini_results_) ==
    LET merged == AddOpenAI(openai_results_, 1, gemini_results_)
    IN  SubSeq(merged, Len(gemini_results_) + 1, Len(merged)) \o gemini_results_

\* the list merged when both loops have run, before the slice
MergedBeforeLimit(openai_results_, gemini_results_) ==
    AddOpenAI(openai_results_, 1, gemini_results_)

\* merged at the head of each iteration of the second loop, and at its end
RECURSIVE StepsFrom(_, _, _)
StepsFrom(openai_results_, i, merged) ==
    IF i > Len(openai_results_)
    THEN <<merged>>
    ELSE <<merged>> \o StepsFrom(openai_results_, i + 1,
                                 AddOpenAI(<<openai_results_[i]>>, 1, merged))

MergeSteps(openai_results_, gemini_results_) ==
    StepsFrom(openai_results_, 1, gemini_results_)

Merge_LowerCasesNames(openai_results_, gemini_results_) ==
    LET merged == MergedBeforeLimit(openai_results_, gemini_results_)
    IN  [k \in 1..(IF Len(merged) > MergeLimit THEN MergeLimit ELSE Len(merged)) |->
            [merged[k] EXCEPT !.restaurant_name = lower(@)]]

Merge_NoLimit(openai_results_, gemini_results_) ==
    MergedBeforeLimit(openai_results_, gemini_results_)

Merge_LastFive(openai_results_, gemini_results_) ==
    LET merged == MergedBeforeLimit(openai_results_, gemini_results_)
    IN  SubSeq(merged,
               IF Len(merged) > MergeLimit THEN Len(merged) - MergeLimit + 1 ELSE 1,
               Len(merged))

_merge_restaurant_results(openai_results_, gemini_results_) ==
    Take(MergedBeforeLimit(openai_results_, gemini_results_), MergeLimit)

---------------------------------------------------------------------------
(* OpenAIRestaurantService.search_restaurants and                          *)
(* GeminiRestaurantService.search_restaurants.  What the remote model      *)
(* answers is the input: the call fails, the text is no JSON, the          *)
(* "restaurants" field is no list, or it is a list of restaurant dicts.    *)

GeminiLimit == 5

Raises == [raised |-> TRUE, value |-> <<>>]
Returns(v) == [raised |-> FALSE, value |-> v]

OpenAISearch(answer) ==
    IF answer.kind \in {"api_error", "bad_json"}
    THEN Raises
    ELSE IF answer.kind = "not_a_list"
         THEN Returns(<<>>)
         ELSE Returns(answer.restaurants)

GeminiSearch(answer) ==
    IF answer.kind \in {"api_error", "bad_json"}
    THEN Raises
    ELSE IF answer.kind = "not_a_list"
         THEN Returns(<<>>)
         ELSE Returns(Take(answer.restaurants, GeminiLimit))

---------------------------------------------------------------------------
(* GoogleImageService *)

ValidExtensions ==
    << <<".", "j", "p", "g">>, <<".", "j", "p", "e", "g">>, <<".", "p", "n", "g">>,
       <<".", "g", "i", "f">>, <<".", "w", "e", "b", "p">>, <<".", "b", "m", "p">> >>

BlacklistDomains ==
    << <<"i", "n", "s", "t", "a", "g", "r", "a", "m", ".", "c", "o", "m">>,
       <<"f", "a", "c", "e", "b", "o", "o", "k", ".", "c", "o", "m">>,
       <<"t", "w", "i", "t", "t", "e", "r", ".", "c", "o", "m">>,
       <<"x", ".", "c", "o", "m">>,
       <<"t", "i", "k", "t", "o", "k", ".", "c", "o", "m">>,
       <<"y", "o", "u", "t", "u", "b", "e", ".", "c", "o", "m">>,
       <<"l", "i", "n", "k", "e", "d", "i", "n", ".", "c", "o", "m">>,
       <<"p", "i", "n", "t", "e", "r", "e", "s", "t", ".", "c", "o", "m">>,
       <<"/", "p", "r", "o", "f", "i", "l", "e", "/">>,
       <<"/", "u", "s", "e", "r", "/">>,
       <<"/", "a", "c", "c", "o", "u", "n", "t", "/">> >>

NumImages == 3

_is_valid_image_url(url) ==
    IF ~Truthy(url)
    THEN FALSE
    ELSE LET url_lower == lower(url)
             has_valid_extension ==
                 \E k \in DOMAIN ValidExtensions : contains(url_lower, ValidExtensions[k])
         IN  IF ~has_valid_extension
             THEN FALSE
             ELSE IF \E k \in DOMAIN BlacklistDomains :
                        contains(url_lower, BlacklistDomains[k])
                  THEN FALSE
                  ELSE TRUE

\* fetch_restaurant_images: api is the Custom Search answer, [ok, items];
\* a failed request gives the empty list
fetch_restaurant_images(api, num_images) ==
    IF ~api.ok
    THEN <<>>
    ELSE Take(SelectSeq(api.items, _is_valid_image_url), num_images)

\* one iteration of the loop of fetch_images_for_restaurants (force_refetch
\* False): env.exception says that the body raised, env.api is the answer of
\* the Custom Search request, should one be made.  The body does not raise
\* on a record whose images are all valid URLs: the filter reads strings
\* only, and the assignment and the continue follow.  The result is the record
\* as the iteration leaves it and what the iteration did.
EnrichOne_KeepOnFailure(restaurant_, env) ==
    IF /\ env.exception
       /\ ~(/\ restaurant_.images # <<>>
            /\ \A k \in DOMAIN restaurant_.images :
                  _is_valid_image_url(restaurant_.images[k]))
    THEN [record |-> restaurant_, did |-> "exception"]
    ELSE LET existing_images == restaurant_.images
             valid_images == SelectSeq(existing_images, _is_valid_image_url)
         IN  IF existing_images # <<>> /\ valid_images # <<>>
             THEN [record |-> [restaurant_ EXCEPT !.images = valid_images],
                   did |-> "reused"]
             ELSE IF restaurant_.restaurant_name # <<>> /\ restaurant_.city # <<>>
                  THEN IF env.api.ok
                       THEN [record |-> [restaurant_ EXCEPT !.images =
                                           fetch_restaurant_images(env.api, NumImages)],
                             did |-> "fetched"]
                       ELSE [record |-> restaurant_, did |-> "fetch_failed"]
                  ELSE [record |-> [restaurant_ EXCEPT !.images = <<>>],
                        did |-> "missing_name_or_city"]

EnrichOne_AlwaysFetches(restaurant_, env) ==
    IF /\ env.exception
       /\ ~(/\ restaurant_.images # <<>>
            /\ \A k \in DOMAIN restaurant_.images :
                  _is_valid_image_url(restaurant_.images[k]))
    THEN [record |-> [restaurant_ EXCEPT !.images = <<>>], did |-> "exception"]
    ELSE IF restaurant_.restaurant_name # <<>> /\ restaurant_.city # <<>>
         THEN [record |-> [restaurant_ EXCEPT !.images =
                             fetch_restaurant_images(env.api, NumImages)],
               did |-> IF env.api.ok THEN "fetched" ELSE "fetch_failed"]
         ELSE [record |-> [restaurant_ EXCEPT !.images = <<>>],
               did |-> "missing_name_or_city"]

EnrichOne(restaurant_, env) ==
    IF /\ env.exception
       /\ ~(/\ restaurant_.images # <<>>
            /\ \A k \in DOMAIN restaurant_.images :
                  _is_valid_image_url(restaurant_.images[k]))
    THEN [record |-> [restaurant_ EXCEPT !.images = <<>>], did |-> "exception"]
    ELSE LET existing_images == restaurant_.images
             valid_images == SelectSeq(existing_images, _is_valid_image_url)
         IN  IF existing_images # <<>> /\ valid_images # <<>>
             THEN [record |-> [restaurant_ EXCEPT !.images = valid_images],
                   did |-> "reused"]
             ELSE IF restaurant_.restaurant_name # <<>> /\ restaurant_.city # <<>>
                  THEN [record |-> [restaurant_ EXCEPT !.images =
                                      fetch_restaurant_images(env.api, NumImages)],
                        did |-> IF env.api.ok THEN "fetched" ELSE "fetch_failed"]
                  ELSE [record |-> [restaurant_ EXCEPT !.images = <<>>],
                        did |-> "missing_name_or_city"]

\* fetch_images_for_restaurants: envs[r] is what happens while r is processed
fetch_images_for_restaurants(restaurants_, envs) ==
    [i \in DOMAIN restaurants_ |-> EnrichOne(restaurants_[i], envs[restaurants_[i]]).record]

ImageLog(restaurants_, envs) ==
    [i \in DOMAIN restaurants_ |-> EnrichOne(restaurants_[i], envs[restaurants_[i]]).did]

---------------------------------------------------------------------------
(* Input data: restaurant dicts as the providers return them *)

Rec(name, city, images) == [restaurant_name |-> name, city |-> city, images |-> images]

\* all lists over S of length n
ListsOfLen(S, n) == [1..n -> S]

UrlReal == <<"h", "t", "t", "p", ":", "/", "/", "x", "/", "r", "e", "a", "l", ".", "j", "p", "g">>
UrlPlaceholder == <<"h", "t", "t", "p", ":", "/", "/", "x", "/", "g", "a", "l", "l", "e", "r", "y", "1", "/", "p", "l", "a", "c", "e", "h", "o", "l", "d", "e", "r", ".", "j", "p", "g">>
UrlEmpty == <<>>
UrlNoExtension == <<"h", "t", "t", "p", ":", "/", "/", "x", "/", "m", "e", "n", "u">>
UrlSocial == <<"h", "t", "t", "p", ":", "/", "/", "x", ".", "c", "o", "m", "/", "a", ".", "j", "p", "g">>
UrlFetched == <<"h", "t", "t", "p", ":", "/", "/", "g", "/", "f", ".", "P", "N", "G">>

NameNobu == <<"N", "o", "b", "u">>
NameNobuLower == <<"n", "o", "b", "u">>
NameNobuTwice == <<"N", "O", "B", "U", " ", " ", "n", "o", "b", "u">>
NameZuma == <<"Z", "u", "m", "a">>
NameCafeX == <<"C", "a", "f", "e", " ", "X">>
NameSushiBar == <<"S", "u", "s", "h", "i", " ", "B", "a", "r">>
NameZumaGrill == <<"Z", "u", "m", "a", " ", "G", "r", "i", "l", "l">>
NameAji == <<"A", "j", "i">>
NameBao == <<"B", "a", "o">>
NameCoya == <<"C", "o", "y", "a">>
NameDojo == <<"D", "o", "j", "o">>
NameEvo == <<"E", "v", "o">>
NameFika == <<"F", "i", "k", "a">>
NameLePetitChefBar == <<"L", "e", " ", "P", "e", "t", "i", "t", " ", "C", "h", "e", "f", " ", "B", "a", "r">>
NameChefPetitLe == <<"c", "h", "e", "f", " ", "p", "e", "t", "i", "t", " ", "l", "e">>
NamePetitChef == <<"P", "e", "t", "i", "t", " ", "C", "h", "e", "f">>
NameBlank == <<" ", "\t">>
NameEmpty == <<>>
NameA == <<"a">>
NameAUpper == <<"A">>
NameSpace == <<" ">>
NameSevenWords == <<"a", " ", "b", " ", "c", " ", "d", " ", "e", " ", "f", " ", "g">>
NameTenWords ==
    <<"A", " ", "B", " ", "C", " ", "D", " ", "E", " ", "F", " ", "G", " ",
      "h", " ", "i", " ", "j">>

CityDubai == <<"D", "u", "b", "a", "i">>
CityDubaiLower == <<"d", "u", "b", "a", "i">>
CityParis == <<"P", "a", "r", "i", "s">>
CityNone == <<>>

\* records of the search-grounded provider (Gemini)
GeminiPool ==
    { Rec(NameNobu, CityDubai, <<>>),
      Rec(NameZuma, CityDubai, <<>>) }

\* records of the supplementary provider (OpenAI): a case variant of a Gemini
\* record; a record with a real image; a record whose only image is a
\* placeholder; a record whose only image is the empty string
OpenAIPool ==
    { Rec(NameNobuLower, CityDubaiLower, <<>>),
      Rec(NameCafeX, CityDubai, <<UrlReal>>),
      Rec(NameSushiBar, CityParis, <<UrlPlaceholder>>),
      Rec(NameZumaGrill, CityNone, <<UrlEmpty>>) }

\* records without images, no two of them duplicates of each other
NoImagePool ==
    { Rec(NameAji, CityDubai, <<>>),
      Rec(NameBao, CityDubaiLower, <<>>),
      Rec(NameCoya, CityParis, <<>>),
      Rec(NameDojo, CityNone, <<>>),
      Rec(NameEvo, CityDubai, <<>>),
      Rec(NameFika, CityParis, <<>>) }

\* records for the duplicate test: case variants, repeated words, reordered
\* words, word overlaps of 3/4, 2/3 and 1/2, equal names in different cities,
\* empty and blank names, names of a single character, empty cities, seven
\* words of a name of ten words
DupPool ==
    { Rec(NameNobu, CityDubai, <<>>),
      Rec(NameNobuLower, CityDubaiLower, <<>>),
      Rec(NameNobuTwice, CityDubai, <<>>),
      Rec(NameNobu, CityParis, <<>>),
      Rec(NameNobu, CityNone, <<>>),
      Rec(NameLePetitChefBar, CityNone, <<>>),
      Rec(NameChefPetitLe, CityNone, <<>>),
      Rec(NamePetitChef, CityNone, <<>>),
      Rec(NameEmpty, CityDubai, <<>>),
      Rec(NameBlank, CityDubai, <<>>),
      Rec(NameA, CityDubai, <<>>),
      Rec(NameAUpper, CityDubaiLower, <<>>),
      Rec(NameSpace, CityDubai, <<>>),
      Rec(NameSevenWords, CityDubai, <<>>),
      Rec(NameTenWords, CityDubaiLower, <<>>) }

\* records the two providers answer a search request with: a Gemini record
\* with a direct image URL; its case variant without images; a record whose
\* only image is no direct image URL
SearchGeminiPool == { Rec(NameNobu, CityDubai, <<UrlReal>>) }
SearchOpenAIPool ==
    { Rec(NameNobuLower, CityDubaiLower, <<>>),
      Rec(NameCafeX, CityDubai, <<UrlNoExtension>>) }

MaxAnswer == 6
MaxWithNameless == 2

\* a restaurant dict whose restaurant_name is the empty string
NamelessRecord == Rec(NameEmpty, CityDubai, <<>>)

\* what a provider's remote model answers: the call fails, the text is no
\* JSON, "restaurants" is no list, or it is a list of up to MaxAnswer records
\* of the pool, or a list of up to MaxWithNameless records of the pool and
\* the record without a name
Answers(pool) ==
    { [kind |-> k, restaurants |-> <<>>] : k \in {"api_error", "bad_json", "not_a_list"} }
    \cup
    { [kind |-> "list", restaurants |-> l] :
        l \in UNION { ListsOfLen(pool, n) : n \in 0..MaxAnswer } }
    \cup
    { [kind |-> "list", restaurants |-> l] :
        l \in UNION { ListsOfLen(pool \cup {NamelessRecord}, n) :
                        n \in 0..MaxWithNameless } }

\* what the Custom Search API answers an image request with
ApiAnswers ==
    { [ok |-> FALSE, items |-> <<>>],
      [ok |-> TRUE, items |-> <<UrlSocial, UrlFetched, UrlReal, UrlFetched, UrlPlaceholder>>] }

\* what happens while one record is processed by the image service
ImageEnvs ==
    { [exception |-> TRUE, api |-> [ok |-> FALSE, items |-> <<>>]] }
    \cup
    { [exception |-> FALSE, api |-> a] : a \in ApiAnswers }

\* records handed to the image service: two valid URLs; a valid and an
\* invalid URL; a blacklisted URL; no images; a placeholder URL and no city;
\* no name
EnrichPool ==
    { Rec(NameNobu, CityDubai, <<UrlReal, UrlFetched>>),
      Rec(NameCafeX, CityDubai, <<UrlReal, UrlNoExtension>>),
      Rec(NameSushiBar, CityDubai, <<UrlSocial>>),
      Rec(NameNobuLower, CityDubaiLower, <<>>),
      Rec(NameZuma, CityNone, <<UrlPlaceholder>>),
      NamelessRecord }

MaxEnrich == 2

\* the lists handed to fetch_images_for_restaurants
EnrichInputs == UNION { ListsOfLen(EnrichPool, n) : n \in 0..MaxEnrich }

MaxTotal == 6
MaxOpenAI == 4
MaxDistinct == 6
MaxExisting == 2

Injective(l) == \A i, j \in DOMAIN l : l[i] = l[j] => i = j

\* argument pairs <<openai_results, gemini_results>> of a merge call: every
\* pair of lists over the two pools with at most MaxOpenAI OpenAI records and
\* at most MaxTotal records in all, and every list of up to MaxDistinct
\* different image-less records against an empty Gemini list
MergeInputs ==
    UNION { ListsOfLen(OpenAIPool, n) \X ListsOfLen(GeminiPool, m) :
              <<n, m>> \in { q \in (0..MaxOpenAI) \X (0..MaxTotal) :
                                q[1] + q[2] <= MaxTotal } }
    \cup
    UNION { { l \in ListsOfLen(NoImagePool, n) : Injective(l) } \X { <<>> } :
              n \in 0..MaxDistinct }

\* argument pairs <<restaurant, existing_list>> of a duplicate test
DupInputs ==
    DupPool \X UNION { ListsOfLen(DupPool, n) : n \in 0..MaxExisting }

MaxNameLen == 3

\* the characters of the short names: a lower-case letter, an upper-case
\* letter and a separator
NameAlphabet == {"a", "B", " "}

\* every name of at most MaxNameLen characters over NameAlphabet, and the
\* longer names of the duplicate test
SimNames ==
    UNION { ListsOfLen(NameAlphabet, n) : n \in 0..MaxNameLen }
    \cup
    { NameNobuLower, NameNobuTwice, NameBlank, NamePetitChef, NameChefPetitLe,
      lower(NameLePetitChefBar) }

\* argument pairs <<s1, s2>> of _similarity
SimInputs == SimNames \X SimNames

---------------------------------------------------------------------------
(* What the variables hold while the operation they belong to is not run *)

NotReturned(v) == [returned |-> FALSE, value |-> v]
Returned(v) == [returned |-> TRUE, value |-> v]

NoRestaurant == Rec(<<>>, <<>>, <<>>)

MergeIdle ==
    /\ openai_results = <<>>
    /\ gemini_results = <<>>
    /\ merge_ret = NotReturned(<<>>)
    /\ merge_ret_again = NotReturned(<<>>)
    /\ merge_steps = <<>>

DupIdle ==
    /\ restaurant = NoRestaurant
    /\ existing_list = <<>>
    /\ dup_ret = NotReturned(FALSE)
    /\ dup_ret_again = NotReturned(FALSE)
    /\ dup_sims = <<>>

SimIdle ==
    /\ sim_s1 = <<>>
    /\ sim_s2 = <<>>
    /\ sim_ret = NotReturned(ZeroRatio)
    /\ sim_ret_swapped = NotReturned(ZeroRatio)

Users == {"u1", "u2"}

NoResponse ==
    [op |-> "none", user |-> "none", arg |-> "none", status |-> 0,
     found |-> FALSE, was_active |-> FALSE, token |-> "none", rows |-> <<>>]

ApiIdle ==
    /\ watchlist_items = <<>>
    /\ saved_restaurants = <<>>
    /\ user_settings = <<>>
    /\ shareable_links = <<>>
    /\ inflight = <<>>
    /\ last = NoResponse
    /\ budget = 0
    /\ first_token = [u \in Users |-> "none"]
    /\ link_event = [u \in Users |-> "none"]

RequestIdle ==
    /\ mode = 0
    /\ pc = "idle"
    /\ openai_restaurants = <<>>
    /\ gemini_restaurants = <<>>
    /\ restaurants = <<>>
    /\ openai_status = "not_called"
    /\ gemini_status = "not_called"
    /\ before_images = <<>>
    /\ image_log = <<>>
    /\ response = "none"

---------------------------------------------------------------------------
(* A direct call of _merge_restaurant_results *)

MergeInit ==
    /\ \E p \in MergeInputs :
          /\ openai_results = p[1]
          /\ gemini_results = p[2]
    /\ merge_ret = NotReturned(<<>>)
    /\ merge_ret_again = NotReturned(<<>>)
    /\ merge_steps = <<>>
    /\ DupIdle
    /\ SimIdle
    /\ RequestIdle
    /\ ApiIdle

CallMerge ==
    /\ ~merge_ret.returned
    /\ merge_ret' = Returned(_merge_restaurant_results(openai_results, gemini_results))
    /\ merge_steps' = MergeSteps(openai_results, gemini_results)
    /\ UNCHANGED <<openai_results, gemini_results, merge_ret_again, dupVars, simVars,
                   requestVars, apiVars>>

\* the same call once more
CallMergeAgain ==
    /\ merge_ret.returned
    /\ ~merge_ret_again.returned
    /\ merge_ret_again' =
          Returned(_merge_restaurant_results(openai_results, gemini_results))
    /\ UNCHANGED <<openai_results, gemini_results, merge_ret, merge_steps, dupVars,
                   simVars, requestVars, apiVars>>

MergeNext == CallMerge

MergeSpec == MergeInit /\ [][MergeNext]_vars

---------------------------------------------------------------------------
(* A direct call of _is_duplicate_restaurant *)

DupInit ==
    /\ \E p \in DupInputs :
          /\ restaurant = p[1]
          /\ existing_list = p[2]
    /\ dup_ret = NotReturned(FALSE)
    /\ dup_ret_again = NotReturned(FALSE)
    /\ dup_sims = <<>>
    /\ MergeIdle
    /\ SimIdle
    /\ RequestIdle
    /\ ApiIdle

CallIsDuplicate ==
    /\ ~dup_ret.returned
    /\ dup_ret' = Returned(_is_duplicate_restaurant(restaurant, existing_list))
    /\ dup_sims' = DuplicateSims(restaurant, existing_list)
    /\ UNCHANGED <<restaurant, existing_list, dup_ret_again, mergeVars, simVars,
                   requestVars, apiVars>>

\* the same call once more
CallIsDuplicateAgain ==
    /\ dup_ret.returned
    /\ ~dup_ret_again.returned
    /\ dup_ret_again' = Returned(_is_duplicate_restaurant(restaurant, existing_list))
    /\ UNCHANGED <<restaurant, existing_list, dup_ret, dup_sims, mergeVars, simVars,
                   requestVars, apiVars>>

DupNext == CallIsDuplicate

DupSpec == DupInit /\ [][DupNext]_vars

\* direct calls of either function, each made twice
PureInit == MergeInit \/ DupInit

\* the function that was given arguments is the one called
CallMergeOnly ==
    /\ restaurant = NoRestaurant
    /\ existing_list = <<>>
    /\ CallMerge

CallIsDuplicateOnly ==
    /\ openai_results = <<>>
    /\ gemini_results = <<>>
    /\ CallIsDuplicate

PureNext ==
    \/ CallMergeOnly
    \/ CallMergeAgain
    \/ CallIsDuplicateOnly
    \/ CallIsDuplicateAgain

PureSpec == PureInit /\ [][PureNext]_vars

---------------------------------------------------------------------------
(* Direct calls of _similarity on a pair of names, in both argument orders *)

SimInit ==
    /\ \E p \in SimInputs :
          /\ sim_s1 = p[1]
          /\ sim_s2 = p[2]
    /\ sim_ret = NotReturned(ZeroRatio)
    /\ sim_ret_swapped = NotReturned(ZeroRatio)
    /\ MergeIdle
    /\ DupIdle
    /\ RequestIdle
    /\ ApiIdle

CallSimilarity ==
    /\ ~sim_ret.returned
    /\ sim_ret' = Returned(_similarity(sim_s1, sim_s2))
    /\ UNCHANGED <<sim_s1, sim_s2, sim_ret_swapped, mergeVars, dupVars, requestVars, apiVars>>

CallSimilaritySwapped ==
    /\ ~sim_ret_swapped.returned
    /\ sim_ret_swapped' = Returned(_similarity(sim_s2, sim_s1))
    /\ UNCHANGED <<sim_s1, sim_s2, sim_ret, mergeVars, dupVars, requestVars, apiVars>>

SimNext == CallSimilarity \/ CallSimilaritySwapped

SimSpec == SimInit /\ [][SimNext]_vars

---------------------------------------------------------------------------
(* One request to POST /search: search_restaurants.  The request body has  *)
(* passed validation (mode is 1, 2 or 3), both service objects can be      *)
(* built, and every record a provider returns fits the response schema.    *)

Init ==
    /\ mode \in 1..3
    /\ pc = "start"
    /\ openai_restaurants = <<>>
    /\ gemini_restaurants = <<>>
    /\ restaurants = <<>>
    /\ openai_status = "not_called"
    /\ gemini_status = "not_called"
    /\ before_images = <<>>
    /\ image_log = <<>>
    /\ response = "none"
    /\ MergeIdle
    /\ DupIdle
    /\ SimIdle
    /\ ApiIdle

\* mode 1: the OpenAI call; an exception reaches the outer handler
SearchOpenAIOnly ==
    /\ pc = "start"
    /\ mode = 1
    /\ \E answer \in Answers(SearchOpenAIPool) :
          LET result == OpenAISearch(answer)
          IN  IF result.raised
              THEN /\ openai_status' = "raised"
                   /\ response' = "error_500"
                   /\ pc' = "done"
                   /\ UNCHANGED restaurants
              ELSE /\ openai_status' = "returned"
                   /\ restaurants' = result.value
                   /\ pc' = "images"
                   /\ UNCHANGED response
    /\ UNCHANGED <<mode, openai_restaurants, gemini_restaurants, gemini_status,
                   before_images, image_log, mergeVars, dupVars, simVars, apiVars>>

\* mode 2: the Gemini call; an exception reaches the outer handler
SearchGeminiOnly ==
    /\ pc = "start"
    /\ mode = 2
    /\ \E answer \in Answers(SearchGeminiPool) :
          LET result == GeminiSearch(answer)
          IN  IF result.raised
              THEN /\ gemini_status' = "raised"
                   /\ response' = "error_500"
                   /\ pc' = "done"
                   /\ UNCHANGED restaurants
              ELSE /\ gemini_status' = "returned"
                   /\ restaurants' = result.value
                   /\ pc' = "images"
                   /\ UNCHANGED response
    /\ UNCHANGED <<mode, openai_restaurants, gemini_restaurants, openai_status,
                   before_images, image_log, mergeVars, dupVars, simVars, apiVars>>

HybridOpenAI_Propagates ==
    /\ pc = "start"
    /\ mode = 3
    /\ \E answer \in Answers(SearchOpenAIPool) :
          LET result == OpenAISearch(answer)
          IN  IF result.raised
              THEN /\ openai_status' = "raised"
                   /\ response' = "error_500"
                   /\ pc' = "done"
                   /\ UNCHANGED openai_restaurants
              ELSE /\ openai_status' = "returned"
                   /\ openai_restaurants' = result.value
                   /\ pc' = "hybrid_gemini"
                   /\ UNCHANGED response
    /\ UNCHANGED <<mode, gemini_restaurants, restaurants, gemini_status,
                   before_images, image_log, mergeVars, dupVars, simVars, apiVars>>

HybridOpenAI_SkipsGemini ==
    /\ pc = "start"
    /\ mode = 3
    /\ \E answer \in Answers(SearchOpenAIPool) :
          LET result == OpenAISearch(answer)
          IN  IF result.raised
              THEN /\ openai_status' = "raised"
                   /\ pc' = "hybrid_gemini"
                   /\ UNCHANGED openai_restaurants
              ELSE /\ openai_status' = "returned"
                   /\ openai_restaurants' = result.value
                   /\ pc' = "hybrid_merge"
    /\ UNCHANGED <<mode, gemini_restaurants, restaurants, gemini_status,
                   before_images, image_log, response, mergeVars, dupVars, simVars, apiVars>>

\* mode 3: the OpenAI call inside its own try; an exception is logged
HybridOpenAI ==
    /\ pc = "start"
    /\ mode = 3
    /\ \E answer \in Answers(SearchOpenAIPool) :
          LET result == OpenAISearch(answer)
          IN  IF result.raised
              THEN /\ openai_status' = "raised"
                   /\ UNCHANGED openai_restaurants
              ELSE /\ openai_status' = "returned"
                   /\ openai_restaurants' = result.value
    /\ pc' = "hybrid_gemini"
    /\ UNCHANGED <<mode, gemini_restaurants, restaurants, gemini_status,
                   before_images, image_log, response, mergeVars, dupVars, simVars, apiVars>>

HybridGemini_Propagates ==
    /\ pc = "hybrid_gemini"
    /\ \E answer \in Answers(SearchGeminiPool) :
          LET result == GeminiSearch(answer)
          IN  IF result.raised
              THEN /\ gemini_status' = "raised"
                   /\ response' = "error_500"
                   /\ pc' = "done"
                   /\ UNCHANGED gemini_restaurants
              ELSE /\ gemini_status' = "returned"
                   /\ gemini_restaurants' = result.value
                   /\ pc' = "hybrid_merge"
                   /\ UNCHANGED response
    /\ UNCHANGED <<mode, openai_restaurants, restaurants, openai_status,
                   before_images, image_log, mergeVars, dupVars, simVars, apiVars>>

\* mode 3: the Gemini call inside its own try; an exception is logged
HybridGemini ==
    /\ pc = "hybrid_gemini"
    /\ \E answer \in Answers(SearchGeminiPool) :
          LET result == GeminiSearch(answer)
          IN  IF result.raised
              THEN /\ gemini_status' = "raised"
                   /\ UNCHANGED gemini_restaurants
              ELSE /\ gemini_status' = "returned"
                   /\ gemini_restaurants' = result.value
    /\ pc' = "hybrid_merge"
    /\ UNCHANGED <<mode, openai_restaurants, restaurants, openai_status,
                   before_images, image_log, response, mergeVars, dupVars, simVars, apiVars>>

\* modes 1 and 3: client.chat.completions.create is called without a timeout
\* argument; the remote service does not answer and the call does not return
OpenAICallNeverReturns ==
    /\ pc = "start"
    /\ mode \in {1, 3}
    /\ openai_status' = "pending"
    /\ pc' = "in_openai_call"
    /\ UNCHANGED <<mode, openai_restaurants, gemini_restaurants, restaurants,
                   gemini_status, before_images, image_log, response,
                   mergeVars, dupVars, simVars, apiVars>>

\* modes 2 and 3: model.generate_content is called without a timeout
\* argument; the remote service does not answer and the call does not return
GeminiCallNeverReturns ==
    /\ \/ pc = "start" /\ mode = 2
       \/ pc = "hybrid_gemini"
    /\ gemini_status' = "pending"
    /\ pc' = "in_gemini_call"
    /\ UNCHANGED <<mode, openai_restaurants, gemini_restaurants, restaurants,
                   openai_status, before_images, image_log, response,
                   mergeVars, dupVars, simVars, apiVars>>

\* mode 3: restaurants = _merge_restaurant_results(openai_restaurants, gemini_restaurants)
HybridMerge ==
    /\ pc = "hybrid_merge"
    /\ restaurants' = _merge_restaurant_results(openai_restaurants, gemini_restaurants)
    /\ pc' = "images"
    /\ UNCHANGED <<mode, openai_restaurants, gemini_restaurants, openai_status,
                   gemini_status, before_images, image_log, response,
                   mergeVars, dupVars, simVars, apiVars>>

\* if restaurants: restaurants = image_service.fetch_images_for_restaurants(restaurants)
FetchImages ==
    /\ pc = "images"
    /\ before_images' = restaurants
    /\ IF restaurants # <<>>
       THEN \E envs \in [set(restaurants) -> ImageEnvs] :
               /\ restaurants' = fetch_images_for_restaurants(restaurants, envs)
               /\ image_log' = ImageLog(restaurants, envs)
       ELSE UNCHANGED <<restaurants, image_log>>
    /\ pc' = "respond"
    /\ UNCHANGED <<mode, openai_restaurants, gemini_restaurants, openai_status,
                   gemini_status, response, mergeVars, dupVars, simVars, apiVars>>

\* return RestaurantSearchResponse(restaurants=restaurants)
Respond ==
    /\ pc = "respond"
    /\ response' = "ok"
    /\ pc' = "done"
    /\ UNCHANGED <<mode, openai_restaurants, gemini_restaurants, restaurants,
                   openai_status, gemini_status, before_images, image_log,
                   mergeVars, dupVars, simVars, apiVars>>

\* a direct call of fetch_images_for_restaurants on the list in restaurants
EnrichInit ==
    /\ mode = 0
    /\ pc = "images"
    /\ openai_restaurants = <<>>
    /\ gemini_restaurants = <<>>
    /\ restaurants \in EnrichInputs
    /\ openai_status = "not_called"
    /\ gemini_status = "not_called"
    /\ before_images = <<>>
    /\ image_log = <<>>
    /\ response = "none"
    /\ MergeIdle
    /\ DupIdle
    /\ SimIdle
    /\ ApiIdle

EnrichNext == FetchImages

EnrichSpec == EnrichInit /\ [][EnrichNext]_vars

Next ==
    \/ SearchOpenAIOnly
    \/ SearchGeminiOnly
    \/ HybridOpenAI
    \/ HybridGemini
    \/ OpenAICallNeverReturns
    \/ GeminiCallNeverReturns
    \/ HybridMerge
    \/ FetchImages
    \/ Respond

Spec == Init /\ [][Next]_vars

\* the server runs the handler: a step the handler can take is taken
LiveSpec == Spec /\ WF_vars(Next)

---------------------------------------------------------------------------
(* The database-backed endpoints.  A handler that queries and then inserts *)
(* is two steps, the query and the commit, and another request can be      *)
(* served between them when a second server process shares the database;   *)
(* the other handlers are one step.  A row carries its key columns.        *)

MaxRequests == 4
Tokens == {"t1", "t2"}

RowsOf(table, u) == SelectSeq(table, LAMBDA row : row.user_id = u)

Response(op, u, arg, status, found, was_active, token, rows) ==
    [op |-> op, user |-> u, arg |-> arg, status |-> status, found |-> found,
     was_active |-> was_active, token |-> token, rows |-> rows]

Remove(seq, i) == SubSeq(seq, 1, i - 1) \o SubSeq(seq, i + 1, Len(seq))

\* create_or_get_shareable_link when the query finds the user's row: the
\* row is reactivated if inactive and returned with the token it has
CreateLinkExisting_NewToken(u) ==
    /\ budget > 0
    /\ RowsOf(shareable_links, u) # <<>>
    /\ \E t \in Tokens :
          LET existing_link == RowsOf(shareable_links, u)[1]
          IN  /\ shareable_links' =
                    [i \in DOMAIN shareable_links |->
                        IF shareable_links[i].user_id = u /\ ~existing_link.is_active
                        THEN [shareable_links[i] EXCEPT !.is_active = TRUE,
                                                        !.token = t]
                        ELSE shareable_links[i]]
              /\ last' = Response("create_link", u, "none", 200, TRUE,
                                  existing_link.is_active,
                                  RowsOf(shareable_links', u)[1].token, <<>>)
              /\ link_event' = [link_event EXCEPT ![u] =
                                   IF existing_link.is_active THEN @ ELSE "recreated"]
    /\ budget' = budget - 1
    /\ UNCHANGED <<watchlist_items, saved_restaurants, user_settings, inflight,
                   first_token, mergeVars, dupVars, simVars, requestVars>>

CreateLinkExisting(u) ==
    /\ budget > 0
    /\ RowsOf(shareable_links, u) # <<>>
    /\ LET existing_link == RowsOf(shareable_links, u)[1]
       IN  /\ shareable_links' =
                 [i \in DOMAIN shareable_links |->
                     IF shareable_links[i].user_id = u
                     THEN [shareable_links[i] EXCEPT !.is_active = TRUE]
                     ELSE shareable_links[i]]
           /\ last' = Response("create_link", u, "none", 200, TRUE,
                               existing_link.is_active, existing_link.token, <<>>)
           /\ link_event' = [link_event EXCEPT ![u] =
                                IF existing_link.is_active THEN @ ELSE "recreated"]
    /\ budget' = budget - 1
    /\ UNCHANGED <<watchlist_items, saved_restaurants, user_settings, inflight,
                   first_token, mergeVars, dupVars, simVars, requestVars>>

\* create_or_get_shareable_link when the query finds no row of the user
CreateLinkQueryNone(u) ==
    /\ budget > 0
    /\ RowsOf(shareable_links, u) = <<>>
    /\ inflight' = Append(inflight, [op |-> "create_link", user |-> u, arg |-> "none"])
    /\ budget' = budget - 1
    /\ UNCHANGED <<watchlist_items, saved_restaurants, user_settings,
                   shareable_links, last, first_token, link_event,
                   mergeVars, dupVars, simVars, requestVars>>

\* the token is drawn and the row inserted; the unique columns user_id and
\* token make the commit raise, and the request end in HTTP 500, when a row
\* of the user or a row with the token has been committed meanwhile
CreateLinkCommit(i) ==
    /\ i \in DOMAIN inflight
    /\ inflight[i].op = "create_link"
    /\ \E token \in Tokens :
          LET u == inflight[i].user
              conflict == \E k \in DOMAIN shareable_links :
                              \/ shareable_links[k].user_id = u
                              \/ shareable_links[k].token = token
          IN  IF conflict
              THEN /\ last' = Response("create_link", u, "none", 500, FALSE,
                                       FALSE, "none", <<>>)
                   /\ UNCHANGED <<shareable_links, first_token, link_event>>
              ELSE /\ shareable_links' =
                         Append(shareable_links,
                                [user_id |-> u, token |-> token, is_active |-> TRUE])
                   /\ last' = Response("create_link", u, "none", 200, FALSE,
                                       FALSE, token, <<>>)
                   /\ first_token' = [first_token EXCEPT ![u] = token]
                   /\ link_event' = [link_event EXCEPT ![u] = "created"]
    /\ inflight' = Remove(inflight, i)
    /\ UNCHANGED <<watchlist_items, saved_restaurants, user_settings, budget,
                   mergeVars, dupVars, simVars, requestVars>>

\* get_shareable_link: the user's active row, or null
GetLink_IgnoresActive(u) ==
    /\ budget > 0
    /\ LET found == RowsOf(shareable_links, u)
       IN  last' = Response("get_link", u, "none", 200, found # <<>>,
                            found # <<>> /\ found[1].is_active,
                            IF found # <<>> THEN found[1].token ELSE "none", found)
    /\ budget' = budget - 1
    /\ UNCHANGED <<watchlist_items, saved_restaurants, user_settings,
                   shareable_links, inflight, first_token, link_event,
                   mergeVars, dupVars, simVars, requestVars>>

GetLink(u) ==
    /\ budget > 0
    /\ LET found == SelectSeq(RowsOf(shareable_links, u), LAMBDA row : row.is_active)
       IN  last' = Response("get_link", u, "none", 200, found # <<>>, found # <<>>,
                            IF found # <<>> THEN found[1].token ELSE "none", found)
    /\ budget' = budget - 1
    /\ UNCHANGED <<watchlist_items, saved_restaurants, user_settings,
                   shareable_links, inflight, first_token, link_event,
                   mergeVars, dupVars, simVars, requestVars>>

\* delete_shareable_link: 404 without a row, else the row is deactivated
RevokeLink_DeletesRow(u) ==
    /\ budget > 0
    /\ LET found == RowsOf(shareable_links, u)
       IN  IF found = <<>>
           THEN /\ last' = Response("revoke_link", u, "none", 404, FALSE, FALSE,
                                    "none", <<>>)
                /\ UNCHANGED <<shareable_links, link_event>>
           ELSE /\ shareable_links' =
                      SelectSeq(shareable_links, LAMBDA row : row.user_id # u)
                /\ last' = Response("revoke_link", u, "none", 200, TRUE,
                                    found[1].is_active, found[1].token, <<>>)
                /\ link_event' = [link_event EXCEPT ![u] = "revoked"]
    /\ budget' = budget - 1
    /\ UNCHANGED <<watchlist_items, saved_restaurants, user_settings, inflight,
                   first_token, mergeVars, dupVars, simVars, requestVars>>

RevokeLink(u) ==
    /\ budget > 0
    /\ LET found == RowsOf(shareable_links, u)
       IN  IF found = <<>>
           THEN /\ last' = Response("revoke_link", u, "none", 404, FALSE, FALSE,
                                    "none", <<>>)
                /\ UNCHANGED <<shareable_links, link_event>>
           ELSE /\ shareable_links' =
                      [i \in DOMAIN shareable_links |->
                          IF shareable_links[i].user_id = u
                          THEN [shareable_links[i] EXCEPT !.is_active = FALSE]
                          ELSE shareable_links[i]]
                /\ last' = Response("revoke_link", u, "none", 200, TRUE,
                                    found[1].is_active, found[1].token, <<>>)
                /\ link_event' = [link_event EXCEPT ![u] = "revoked"]
    /\ budget' = budget - 1
    /\ UNCHANGED <<watchlist_items, saved_restaurants, user_settings, inflight,
                   first_token, mergeVars, dupVars, simVars, requestVars>>

\* view_shared_watchlist, the public page of a token: the owner's lists
\* when an active row has the token, else the 404 page
ViewShared_IgnoresActive(token) ==
    /\ budget > 0
    /\ LET found == SelectSeq(shareable_links, LAMBDA row : row.token = token)
       IN  last' = IF found = <<>>
                   THEN Response("view", "public", token, 404, FALSE, FALSE,
                                 token, <<>>)
                   ELSE Response("view", "public", token, 200, TRUE, TRUE, token,
                                 RowsOf(watchlist_items, found[1].user_id)
                                     \o RowsOf(saved_restaurants, found[1].user_id))
    /\ budget' = budget - 1
    /\ UNCHANGED <<watchlist_items, saved_restaurants, user_settings,
                   shareable_links, inflight, first_token, link_event,
                   mergeVars, dupVars, simVars, requestVars>>

ViewShared(token) ==
    /\ budget > 0
    /\ LET found == SelectSeq(shareable_links,
                              LAMBDA row : row.token = token /\ row.is_active)
       IN  last' = IF found = <<>>
                   THEN Response("view", "public", token, 404, FALSE, FALSE,
                                 token, <<>>)
                   ELSE Response("view", "public", token, 200, TRUE, TRUE, token,
                                 RowsOf(watchlist_items, found[1].user_id)
                                     \o RowsOf(saved_restaurants, found[1].user_id))
    /\ budget' = budget - 1
    /\ UNCHANGED <<watchlist_items, saved_restaurants, user_settings,
                   shareable_links, inflight, first_token, link_event,
                   mergeVars, dupVars, simVars, requestVars>>

\* an empty database and MaxRequests requests to come
LinkInit ==
    /\ MergeIdle
    /\ DupIdle
    /\ SimIdle
    /\ RequestIdle
    /\ watchlist_items = <<>>
    /\ saved_restaurants = <<>>
    /\ user_settings = <<>>
    /\ shareable_links = <<>>
    /\ inflight = <<>>
    /\ last = NoResponse
    /\ budget = MaxRequests
    /\ first_token = [u \in Users |-> "none"]
    /\ link_event = [u \in Users |-> "none"]

LinkNext ==
    \/ \E u \in Users : CreateLinkExisting(u)
    \/ \E u \in Users : CreateLinkQueryNone(u)
    \/ \E i \in DOMAIN inflight : CreateLinkCommit(i)
    \/ \E u \in Users : GetLink(u)
    \/ \E u \in Users : RevokeLink(u)
    \/ \E token \in Tokens : ViewShared(token)

LinkSpec == LinkInit /\ [][LinkNext]_vars

Movies == {"m1", "m2"}
RestaurantIds == {"r1", "r2"}

Reverse(seq) == [i \in 1..Len(seq) |-> seq[Len(seq) + 1 - i]]

\* .first(): the first of the indices of the rows that satisfy the filter,
\* 0 if there is none
First(indices) ==
    IF indices = {}
    THEN 0
    ELSE CHOOSE i \in indices : \A k \in indices : i <= k

WatchlistItemOf(u, movie_id) ==
    First({ i \in DOMAIN watchlist_items :
              /\ watchlist_items[i].user_id = u
              /\ watchlist_items[i].movie_id = movie_id })

SavedRestaurantOf(u, restaurant_id) ==
    First({ i \in DOMAIN saved_restaurants :
              /\ saved_restaurants[i].user_id = u
              /\ saved_restaurants[i].restaurant_id = restaurant_id })

\* get_watchlist: the user's items
GetWatchlist(u) ==
    /\ budget > 0
    /\ last' = Response("get_watchlist", u, "none", 200, TRUE, FALSE, "none",
                        RowsOf(watchlist_items, u))
    /\ budget' = budget - 1
    /\ UNCHANGED <<watchlist_items, saved_restaurants, user_settings,
                   shareable_links, inflight, first_token, link_event,
                   mergeVars, dupVars, simVars, requestVars>>

\* add_to_watchlist when the query finds the movie in the user's watchlist
AddToWatchlistExisting(u, movie_id) ==
    /\ budget > 0
    /\ WatchlistItemOf(u, movie_id) # 0
    /\ last' = Response("add_to_watchlist", u, movie_id, 400, TRUE, FALSE,
                        "none", <<>>)
    /\ budget' = budget - 1
    /\ UNCHANGED <<watchlist_items, saved_restaurants, user_settings,
                   shareable_links, inflight, first_token, link_event,
                   mergeVars, dupVars, simVars, requestVars>>

\* add_to_watchlist when the query finds no such item
AddToWatchlistQueryNone(u, movie_id) ==
    /\ budget > 0
    /\ WatchlistItemOf(u, movie_id) = 0
    /\ inflight' = Append(inflight, [op |-> "add_to_watchlist", user |-> u,
                                     arg |-> movie_id])
    /\ budget' = budget - 1
    /\ UNCHANGED <<watchlist_items, saved_restaurants, user_settings,
                   shareable_links, last, first_token, link_event,
                   mergeVars, dupVars, simVars, requestVars>>

\* the insert and its commit; the unique index idx_user_movie makes the
\* commit raise, and the request end in HTTP 500, when the item has been
\* committed meanwhile
AddToWatchlistCommit_NoUniqueIndex(i) ==
    /\ i \in DOMAIN inflight
    /\ inflight[i].op = "add_to_watchlist"
    /\ LET u == inflight[i].user
           movie_id == inflight[i].arg
           new_item == [user_id |-> u, movie_id |-> movie_id, movie_data |-> "added"]
       IN  /\ watchlist_items' = Append(watchlist_items, new_item)
           /\ last' = Response("add_to_watchlist", u, movie_id, 201, FALSE,
                               FALSE, "none", <<new_item>>)
    /\ inflight' = Remove(inflight, i)
    /\ UNCHANGED <<saved_restaurants, user_settings, shareable_links, budget,
                   first_token, link_event, mergeVars, dupVars, simVars,
                   requestVars>>

AddToWatchlistCommit(i) ==
    /\ i \in DOMAIN inflight
    /\ inflight[i].op = "add_to_watchlist"
    /\ LET u == inflight[i].user
           movie_id == inflight[i].arg
           new_item == [user_id |-> u, movie_id |-> movie_id, movie_data |-> "added"]
       IN  IF WatchlistItemOf(u, movie_id) # 0
           THEN /\ last' = Response("add_to_watchlist", u, movie_id, 500, FALSE,
                                    FALSE, "none", <<>>)
                /\ UNCHANGED watchlist_items
           ELSE /\ watchlist_items' = Append(watchlist_items, new_item)
                /\ last' = Response("add_to_watchlist", u, movie_id, 201, FALSE,
                                    FALSE, "none", <<new_item>>)
    /\ inflight' = Remove(inflight, i)
    /\ UNCHANGED <<saved_restaurants, user_settings, shareable_links, budget,
                   first_token, link_event, mergeVars, dupVars, simVars,
                   requestVars>>

\* remove_from_watchlist: 404 without the item, else the item is deleted
RemoveFromWatchlist_AnyUser(u, movie_id) ==
    /\ budget > 0
    /\ LET i == First({ k \in DOMAIN watchlist_items :
                          watchlist_items[k].movie_id = movie_id })
       IN  IF i = 0
           THEN /\ last' = Response("remove_from_watchlist", u, movie_id, 404,
                                    FALSE, FALSE, "none", <<>>)
                /\ UNCHANGED watchlist_items
           ELSE /\ watchlist_items' = Remove(watchlist_items, i)
                /\ last' = Response("remove_from_watchlist", u, movie_id, 204,
                                    TRUE, FALSE, "none", <<>>)
    /\ budget' = budget - 1
    /\ UNCHANGED <<saved_restaurants, user_settings, shareable_links, inflight,
                   first_token, link_event, mergeVars, dupVars, simVars,
                   requestVars>>

RemoveFromWatchlist(u, movie_id) ==
    /\ budget > 0
    /\ LET i == WatchlistItemOf(u, movie_id)
       IN  IF i = 0
           THEN /\ last' = Response("remove_from_watchlist", u, movie_id, 404,
                                    FALSE, FALSE, "none", <<>>)
                /\ UNCHANGED watchlist_items
           ELSE /\ watchlist_items' = Remove(watchlist_items, i)
                /\ last' = Response("remove_from_watchlist", u, movie_id, 204,
                                    TRUE, FALSE, "none", <<>>)
    /\ budget' = budget - 1
    /\ UNCHANGED <<saved_restaurants, user_settings, shareable_links, inflight,
                   first_token, link_event, mergeVars, dupVars, simVars,
                   requestVars>>

\* update_watchlist_item: 404 without the item, else the update is merged
\* into the item's movie_data
UpdateWatchlistItem(u, movie_id) ==
    /\ budget > 0
    /\ LET i == WatchlistItemOf(u, movie_id)
       IN  IF i = 0
           THEN /\ last' = Response("update_watchlist_item", u, movie_id, 404,
                                    FALSE, FALSE, "none", <<>>)
                /\ UNCHANGED watchlist_items
           ELSE /\ watchlist_items' =
                      [watchlist_items EXCEPT ![i].movie_data = "updated"]
                /\ last' = Response("update_watchlist_item", u, movie_id, 200,
                                    TRUE, FALSE, "none", <<watchlist_items'[i]>>)
    /\ budget' = budget - 1
    /\ UNCHANGED <<saved_restaurants, user_settings, shareable_links, inflight,
                   first_token, link_event, mergeVars, dupVars, simVars,
                   requestVars>>

WatchInit == LinkInit

WatchNext ==
    \/ \E u \in Users : GetWatchlist(u)
    \/ \E u \in Users, movie_id \in Movies : AddToWatchlistExisting(u, movie_id)
    \/ \E u \in Users, movie_id \in Movies : AddToWatchlistQueryNone(u, movie_id)
    \/ \E i \in DOMAIN inflight : AddToWatchlistCommit(i)
    \/ \E u \in Users, movie_id \in Movies : RemoveFromWatchlist(u, movie_id)
    \/ \E u \in Users, movie_id \in Movies : UpdateWatchlistItem(u, movie_id)

WatchSpec == WatchInit /\ [][WatchNext]_vars

\* save_restaurant when the query finds the restaurant in the user's list
SaveRestaurantExisting(u, restaurant_id) ==
    /\ budget > 0
    /\ SavedRestaurantOf(u, restaurant_id) # 0
    /\ last' = Response("save_restaurant", u, restaurant_id, 400, TRUE, FALSE,
                        "none", <<>>)
    /\ budget' = budget - 1
    /\ UNCHANGED <<watchlist_items, saved_restaurants, user_settings,
                   shareable_links, inflight, first_token, link_event,
                   mergeVars, dupVars, simVars, requestVars>>

\* save_restaurant when the query finds no such row
SaveRestaurantQueryNone(u, restaurant_id) ==
    /\ budget > 0
    /\ SavedRestaurantOf(u, restaurant_id) = 0
    /\ inflight' = Append(inflight, [op |-> "save_restaurant", user |-> u,
                                     arg |-> restaurant_id])
    /\ budget' = budget - 1
    /\ UNCHANGED <<watchlist_items, saved_restaurants, user_settings,
                   shareable_links, last, first_token, link_event,
                   mergeVars, dupVars, simVars, requestVars>>

\* the insert and its commit; saved_restaurants has no unique constraint on
\* (user_id, restaurant_id), so the commit succeeds whatever the table holds
SaveRestaurantCommit(i) ==
    /\ i \in DOMAIN inflight
    /\ inflight[i].op = "save_restaurant"
    /\ LET u == inflight[i].user
           restaurant_id == inflight[i].arg
           saved_restaurant == [user_id |-> u, restaurant_id |-> restaurant_id,
                                visited |-> FALSE]
       IN  /\ saved_restaurants' = Append(saved_restaurants, saved_restaurant)
           /\ last' = Response("save_restaurant", u, restaurant_id, 201, FALSE,
                               FALSE, "none", <<saved_restaurant>>)
    /\ inflight' = Remove(inflight, i)
    /\ UNCHANGED <<watchlist_items, user_settings, shareable_links, budget,
                   first_token, link_event, mergeVars, dupVars, simVars,
                   requestVars>>

\* get_saved_restaurant_ids and get_saved_restaurants with the visited
\* filter, in the default order (added_at, descending)
GetSavedRestaurants(u, visited) ==
    /\ budget > 0
    /\ LET results == SelectSeq(RowsOf(saved_restaurants, u),
                                LAMBDA row : \/ visited = "all"
                                             \/ visited = "true" /\ row.visited
                                             \/ visited = "false" /\ ~row.visited)
       IN  last' = Response("get_saved_restaurants", u, visited, 200, TRUE,
                            FALSE, "none", Reverse(results))
    /\ budget' = budget - 1
    /\ UNCHANGED <<watchlist_items, saved_restaurants, user_settings,
                   shareable_links, inflight, first_token, link_event,
                   mergeVars, dupVars, simVars, requestVars>>

\* get_saved_restaurant: 404 without the row, else the first such row
GetSavedRestaurant(u, restaurant_id) ==
    /\ budget > 0
    /\ LET i == SavedRestaurantOf(u, restaurant_id)
       IN  last' = IF i = 0
                   THEN Response("get_saved_restaurant", u, restaurant_id, 404,
                                 FALSE, FALSE, "none", <<>>)
                   ELSE Response("get_saved_restaurant", u, restaurant_id, 200,
                                 TRUE, FALSE, "none", <<saved_restaurants[i]>>)
    /\ budget' = budget - 1
    /\ UNCHANGED <<watchlist_items, saved_restaurants, user_settings,
                   shareable_links, inflight, first_token, link_event,
                   mergeVars, dupVars, simVars, requestVars>>

\* update_saved_restaurant: 404 without the row, else the first such row
\* gets the fields of the request
UpdateSavedRestaurant(u, restaurant_id, visited) ==
    /\ budget > 0
    /\ LET i == SavedRestaurantOf(u, restaurant_id)
       IN  IF i = 0
           THEN /\ last' = Response("update_saved_restaurant", u, restaurant_id,
                                    404, FALSE, FALSE, "none", <<>>)
                /\ UNCHANGED saved_restaurants
           ELSE /\ saved_restaurants' =
                      [saved_restaurants EXCEPT ![i].visited = visited]
                /\ last' = Response("update_saved_restaurant", u, restaurant_id,
                                    200, TRUE, FALSE, "none",
                                    <<saved_restaurants'[i]>>)
    /\ budget' = budget - 1
    /\ UNCHANGED <<watchlist_items, user_settings, shareable_links, inflight,
                   first_token, link_event, mergeVars, dupVars, simVars,
                   requestVars>>

\* delete_saved_restaurant: 404 without the row, else the first such row is
\* deleted
DeleteSavedRestaurant(u, restaurant_id) ==
    /\ budget > 0
    /\ LET i == SavedRestaurantOf(u, restaurant_id)
       IN  IF i = 0
           THEN /\ last' = Response("delete_saved_restaurant", u, restaurant_id,
                                    404, FALSE, FALSE, "none", <<>>)
                /\ UNCHANGED saved_restaurants
           ELSE /\ saved_restaurants' = Remove(saved_restaurants, i)
                /\ last' = Response("delete_saved_restaurant", u, restaurant_id,
                                    204, TRUE, FALSE, "none", <<>>)
    /\ budget' = budget - 1
    /\ UNCHANGED <<watchlist_items, user_settings, shareable_links, inflight,
                   first_token, link_event, mergeVars, dupVars, simVars,
                   requestVars>>

SavedInit == LinkInit

SavedNext ==
    \/ \E u \in Users, restaurant_id \in RestaurantIds :
          SaveRestaurantExisting(u, restaurant_id)
    \/ \E u \in Users, restaurant_id \in RestaurantIds :
          SaveRestaurantQueryNone(u, restaurant_id)
    \/ \E i \in DOMAIN inflight : SaveRestaurantCommit(i)
    \/ \E u \in Users, visited \in {"all", "true", "false"} :
          GetSavedRestaurants(u, visited)
    \/ \E u \in Users, restaurant_id \in RestaurantIds :
          GetSavedRestaurant(u, restaurant_id)
    \/ \E u \in Users, restaurant_id \in RestaurantIds, visited \in BOOLEAN :
          UpdateSavedRestaurant(u, restaurant_id, visited)
    \/ \E u \in Users, restaurant_id \in RestaurantIds :
          DeleteSavedRestaurant(u, restaurant_id)

SavedSpec == SavedInit /\ [][SavedNext]_vars

SettingsValues == {"light", "dark"}

\* get_settings: the settings_data of the user's row, or the defaults
GetSettings(u) ==
    /\ budget > 0
    /\ last' = Response("get_settings", u, "none", 200,
                        RowsOf(user_settings, u) # <<>>, FALSE, "none",
                        RowsOf(user_settings, u))
    /\ budget' = budget - 1
    /\ UNCHANGED <<watchlist_items, saved_restaurants, user_settings,
                   shareable_links, inflight, first_token, link_event,
                   mergeVars, dupVars, simVars, requestVars>>

\* update_settings when the query finds the user's row
UpdateSettingsExisting(u, settings_dict) ==
    /\ budget > 0
    /\ RowsOf(user_settings, u) # <<>>
    /\ user_settings' =
          [i \in DOMAIN user_settings |->
              IF user_settings[i].user_id = u
              THEN [user_settings[i] EXCEPT !.settings_data = settings_dict]
              ELSE user_settings[i]]
    /\ last' = Response("update_settings", u, settings_dict, 200, TRUE, FALSE,
                        "none", RowsOf(user_settings', u))
    /\ budget' = budget - 1
    /\ UNCHANGED <<watchlist_items, saved_restaurants, shareable_links, inflight,
                   first_token, link_event, mergeVars, dupVars, simVars,
                   requestVars>>

\* update_settings when the query finds no row of the user
UpdateSettingsQueryNone(u, settings_dict) ==
    /\ budget > 0
    /\ RowsOf(user_settings, u) = <<>>
    /\ inflight' = Append(inflight, [op |-> "update_settings", user |-> u,
                                     arg |-> settings_dict])
    /\ budget' = budget - 1
    /\ UNCHANGED <<watchlist_items, saved_restaurants, user_settings,
                   shareable_links, last, first_token, link_event,
                   mergeVars, dupVars, simVars, requestVars>>

\* the insert and its commit; user_id is unique in user_settings
UpdateSettingsCommit(i) ==
    /\ i \in DOMAIN inflight
    /\ inflight[i].op = "update_settings"
    /\ LET u == inflight[i].user
           user_setting == [user_id |-> u, settings_data |-> inflight[i].arg]
       IN  IF RowsOf(user_settings, u) # <<>>
           THEN /\ last' = Response("update_settings", u, inflight[i].arg, 500,
                                    FALSE, FALSE, "none", <<>>)
                /\ UNCHANGED user_settings
           ELSE /\ user_settings' = Append(user_settings, user_setting)
                /\ last' = Response("update_settings", u, inflight[i].arg, 200,
                                    FALSE, FALSE, "none", <<user_setting>>)
    /\ inflight' = Remove(inflight, i)
    /\ UNCHANGED <<watchlist_items, saved_restaurants, shareable_links, budget,
                   first_token, link_event, mergeVars, dupVars, simVars,
                   requestVars>>

MaxApiRequests == 2

\* the rows a user has after adding a movie, saving a restaurant, storing
\* settings and creating a link
SeededUsers == SUBSET Users

TokenOf(u) == IF u = "u1" THEN "t1" ELSE "t2"

SeedRows(seeded, row) ==
    (IF "u1" \in seeded THEN <<row["u1"]>> ELSE <<>>)
        \o (IF "u2" \in seeded THEN <<row["u2"]>> ELSE <<>>)

\* every database in which each user has either no rows or one row in each
\* table, and MaxApiRequests requests to come
ApiInit ==
    /\ MergeIdle
    /\ DupIdle
    /\ SimIdle
    /\ RequestIdle
    /\ \E seeded \in SeededUsers :
          /\ watchlist_items =
                SeedRows(seeded, [u \in Users |-> [user_id |-> u, movie_id |-> "m1",
                                                 movie_data |-> "added"]])
          /\ saved_restaurants =
                SeedRows(seeded, [u \in Users |-> [user_id |-> u, restaurant_id |-> "r1",
                                                 visited |-> FALSE]])
          /\ user_settings =
                SeedRows(seeded, [u \in Users |-> [user_id |-> u,
                                                 settings_data |-> "light"]])
          /\ shareable_links =
                SeedRows(seeded, [u \in Users |-> [user_id |-> u, token |-> TokenOf(u),
                                                 is_active |-> TRUE]])
          /\ first_token = [u \in Users |-> IF u \in seeded THEN TokenOf(u) ELSE "none"]
          /\ link_event = [u \in Users |-> IF u \in seeded THEN "created" ELSE "none"]
    /\ inflight = <<>>
    /\ last = NoResponse
    /\ budget = MaxApiRequests

ApiNext ==
    \/ LinkNext
    \/ WatchNext
    \/ SavedNext
    \/ \E u \in Users : GetSettings(u)
    \/ \E u \in Users, settings_dict \in SettingsValues :
          UpdateSettingsExisting(u, settings_dict)
    \/ \E u \in Users, settings_dict \in SettingsValues :
          UpdateSettingsQueryNone(u, settings_dict)
    \/ \E i \in DOMAIN inflight : UpdateSettingsCommit(i)

ApiSpec == ApiInit /\ [][ApiNext]_vars

---------------------------------------------------------------------------
(* Vocabulary of the properties, stated without the code's own operators  *)

Min(a, b) == IF a < b THEN a ELSE b

\* the words of s: its maximal runs of non-whitespace characters, as a set
WordsOf(s) ==
    LET starts == { i \in 1..Len(s) :
                      s[i] \notin Whitespace /\ (i = 1 \/ s[i - 1] \in Whitespace) }
        endOf(i) == CHOOSE j \in i..Len(s) :
                      /\ \A k \in i..j : s[k] \notin Whitespace
                      /\ (j = Len(s) \/ s[j + 1] \in Whitespace)
    IN  { SubSeq(s, i, endOf(i)) : i \in starts }

\* |A \cap B| / |A \cup B| > 0.7 over the word sets of the lower-cased names
JaccardAbove07(name_a, name_b) ==
    LET A == WordsOf(lower(name_a))
        B == WordsOf(lower(name_b))
    IN  10 * Cardinality(A \cap B) > 7 * Cardinality(A \cup B)

\* the duplicate rule of two records
DuplicateMatch(a, b) ==
    /\ JaccardAbove07(a.restaurant_name, b.restaurant_name)
    /\ lower(a.city) = lower(b.city)

\* at least one non-empty URL that does not end in placeholder.jpg
HasRealImage(images) ==
    \E k \in DOMAIN images :
        /\ images[k] # <<>>
        /\ ~endswith(images[k], PlaceholderSuffix)

\* a is b with some entries left out, the rest in b's order
RECURSIVE IsSubsequenceFrom(_, _, _, _)
IsSubsequenceFrom(a, i, b, j) ==
    IF i > Len(a) THEN TRUE
    ELSE IF j > Len(b) THEN FALSE
    ELSE IF a[i] = b[j] THEN IsSubsequenceFrom(a, i + 1, b, j + 1)
    ELSE IsSubsequenceFrom(a, i, b, j + 1)

IsSubsequence(a, b) == IsSubsequenceFrom(a, 1, b, 1)

\* the output list at the moment the i-th OpenAI record is evaluated, and
\* whether that record is appended to it
MergedAt(i) == merge_steps[i]
Admitted(i) == Len(MergedAt(i + 1)) > Len(MergedAt(i))
DuplicateAt(i) ==
    \E k \in DOMAIN MergedAt(i) : DuplicateMatch(openai_results[i], MergedAt(i)[k])

NamesOf(l) == [i \in DOMAIN l |-> l[i].restaurant_name]

---------------------------------------------------------------------------
(* Properties of _merge_restaurant_results (MergeSpec) *)

\* C1: whatever the two input lists, the list the merge returns has at most
\* 5 records.
C1_MergeAtMostFive ==
    merge_ret.returned => Len(merge_ret.value) <= 5

\* a call whose merged list was longer than 5 before the slice
C1_Witness ==
    /\ merge_ret.returned
    /\ Len(MergedAt(Len(openai_results) + 1)) > 5
    /\ Len(gemini_results) < 5

\* C2: the output begins with the first min(5, n) Gemini records in the
\* provider's order (n the number of Gemini records); what follows them are
\* OpenAI records, in their original relative order.
C2_PrimaryFirstInOrder ==
    merge_ret.returned =>
        LET out == merge_ret.value
            k == Min(5, Len(gemini_results))
        IN  /\ Len(out) >= k
            /\ SubSeq(out, 1, k) = SubSeq(gemini_results, 1, k)
            /\ IsSubsequence(SubSeq(out, k + 1, Len(out)), openai_results)

\* a call that returned at least two OpenAI records behind a non-empty Gemini
\* list and left at least one OpenAI record out
C2_Witness ==
    /\ merge_ret.returned
    /\ Len(gemini_results) >= 1
    /\ Len(merge_ret.value) >= Len(gemini_results) + 2
    /\ Len(openai_results) > Len(merge_ret.value) - Len(gemini_results)

\* C3: a non-duplicate OpenAI record evaluated when the output list already
\* holds 3 or more records is admitted if and only if its images hold at
\* least one non-empty URL that does not end in placeholder.jpg.
C3_AdmittedIffRealImage ==
    merge_ret.returned =>
        \A i \in DOMAIN openai_results :
            (~DuplicateAt(i) /\ Len(MergedAt(i)) >= 3)
                => (Admitted(i) <=> HasRealImage(openai_results[i].images))

\* C5: a non-duplicate OpenAI record with an empty images list is admitted
\* exactly when the output list holds fewer than 3 records at the moment it is
\* evaluated, whatever its city; with no Gemini records and 6 pairwise
\* non-duplicate OpenAI records without images the output is the first 3 of
\* them in order.
C5_NoImageAdmittedBelowThree ==
    merge_ret.returned =>
        /\ \A i \in DOMAIN openai_results :
              (~DuplicateAt(i) /\ openai_results[i].images = <<>>)
                  => (Admitted(i) <=> Len(MergedAt(i)) < 3)
        /\ ( /\ gemini_results = <<>>
             /\ Len(openai_results) = 6
             /\ \A i \in DOMAIN openai_results : openai_results[i].images = <<>>
             /\ \A i, j \in DOMAIN openai_results :
                   i # j => ~DuplicateMatch(openai_results[i], openai_results[j]) )
           => merge_ret.value = SubSeq(openai_results, 1, 3)

\* the scenario: no Gemini records, 6 different image-less OpenAI records in
\* more than one city
C5_Witness ==
    /\ merge_ret.returned
    /\ gemini_results = <<>>
    /\ Len(openai_results) = 6
    /\ \A i \in DOMAIN openai_results : openai_results[i].images = <<>>
    /\ \A i, j \in DOMAIN openai_results :
          i # j => ~DuplicateMatch(openai_results[i], openai_results[j])
    /\ \E i, j \in 1..3 : lower(openai_results[i].city) # lower(openai_results[j].city)

ScenarioPrimary == << Rec(NameNobu, CityDubai, <<>>), Rec(NameZuma, CityDubai, <<>>) >>
ScenarioSecondary ==
    << Rec(NameNobuLower, CityDubaiLower, <<>>), Rec(NameCafeX, CityDubai, <<UrlReal>>) >>

\* C6: an OpenAI record whose name and city differ from a Gemini record's
\* only in letter case is not in the output; a non-duplicate OpenAI record
\* with a real image URL is appended; primary [Nobu/Dubai, Zuma/Dubai] with
\* secondary [nobu/dubai, Cafe X/Dubai + http://x/real.jpg] gives the names
\* [Nobu, Zuma, Cafe X].
C6_CaseVariantFiltered ==
    merge_ret.returned =>
        /\ \A i \in DOMAIN openai_results :
              ( /\ \E j \in DOMAIN gemini_results :
                      /\ lower(openai_results[i].restaurant_name)
                            = lower(gemini_results[j].restaurant_name)
                      /\ lower(openai_results[i].city) = lower(gemini_results[j].city)
                /\ \A j \in DOMAIN gemini_results : openai_results[i] # gemini_results[j] )
                  => \A k \in DOMAIN merge_ret.value :
                        merge_ret.value[k] # openai_results[i]
        /\ \A i \in DOMAIN openai_results :
              (~DuplicateAt(i) /\ HasRealImage(openai_results[i].images))
                  => /\ Admitted(i)
                     /\ MergedAt(i + 1) = Append(MergedAt(i), openai_results[i])
        /\ (gemini_results = ScenarioPrimary /\ openai_results = ScenarioSecondary)
              => NamesOf(merge_ret.value) = <<NameNobu, NameZuma, NameCafeX>>

\* the scenario has been merged
C6_Witness ==
    /\ merge_ret.returned
    /\ gemini_results = ScenarioPrimary
    /\ openai_results = ScenarioSecondary

\* the list merged when both loops have run, before the slice
PreTruncation == MergedAt(Len(openai_results) + 1)

\* no Gemini record is a duplicate match of the i-th OpenAI record
NoPrimaryMatch(i) ==
    \A k \in DOMAIN gemini_results :
        ~DuplicateMatch(openai_results[i], gemini_results[k])

\* the i-th OpenAI record meets the inclusion heuristic whatever the reading
\* of "real image": it has a real image URL, or the list holds fewer than 3
MeetsHeuristic(i) ==
    HasRealImage(openai_results[i].images) \/ Len(MergedAt(i)) < 3

\* an OpenAI record admitted before the j-th is a duplicate match of the j-th
EarlierSecondaryMatch(j) ==
    \E i \in 1..(j - 1) :
        Admitted(i) /\ DuplicateMatch(openai_results[i], openai_results[j])

\* C11 as stated: the merge does not deduplicate within one provider's list:
\* every Gemini record is in the list before the slice, and an OpenAI record
\* is never left out for being a duplicate of another OpenAI record (one that
\* no Gemini record matches and that meets the inclusion heuristic is in the
\* list before the slice).
C11_NoDedupWithinProvider ==
    merge_ret.returned =>
        /\ Len(PreTruncation) >= Len(gemini_results)
        /\ SubSeq(PreTruncation, 1, Len(gemini_results)) = gemini_results
        /\ \A j \in DOMAIN openai_results :
              (NoPrimaryMatch(j) /\ MeetsHeuristic(j)) => Admitted(j)

\* C11 amended: the merge does not deduplicate within the Gemini list: every
\* Gemini record, duplicates of other Gemini records included, is in the list
\* before the slice.  Within the OpenAI list it does: an OpenAI record that is
\* a duplicate of an OpenAI record admitted before it is left out, and one
\* that is a duplicate of no record admitted before it (of either provider)
\* and meets the inclusion heuristic is in the list before the slice.
C11_DedupWithinSecondaryOnly ==
    merge_ret.returned =>
        /\ Len(PreTruncation) >= Len(gemini_results)
        /\ SubSeq(PreTruncation, 1, Len(gemini_results)) = gemini_results
        /\ \A j \in DOMAIN openai_results :
              /\ EarlierSecondaryMatch(j) => ~Admitted(j)
              /\ (NoPrimaryMatch(j) /\ ~EarlierSecondaryMatch(j) /\ MeetsHeuristic(j))
                    => Admitted(j)

\* two Gemini records that are duplicates of each other were both kept, and
\* the third OpenAI record, which no Gemini record matches, was left out as a
\* duplicate of the second
C11_Witness ==
    /\ merge_ret.returned
    /\ \E i, k \in DOMAIN gemini_results :
          i < k /\ DuplicateMatch(gemini_results[i], gemini_results[k])
    /\ Len(openai_results) >= 3
    /\ Admitted(1)
    /\ Admitted(2)
    /\ ~DuplicateMatch(openai_results[1], openai_results[3])
    /\ DuplicateMatch(openai_results[2], openai_results[3])
    /\ NoPrimaryMatch(3)
    /\ ~Admitted(3)

\* the returned list holds a record of the OpenAI list
HoldsSecondary(out) ==
    \E k \in DOMAIN out : \E i \in DOMAIN openai_results : out[k] = openai_results[i]

\* C12: the slice never removes a Gemini record in favour of an OpenAI one:
\* the output holds an OpenAI record only if every Gemini record is in the
\* output too, and when there are 5 or more Gemini records the output is
\* exactly the first 5 of them.
C12_PrimaryNeverDisplaced ==
    merge_ret.returned =>
        LET out == merge_ret.value
            n == Len(gemini_results)
        IN  /\ HoldsSecondary(out) =>
                  /\ Len(out) >= n
                  /\ SubSeq(out, 1, n) = gemini_results
                  /\ \A j \in DOMAIN gemini_results :
                        \E k \in DOMAIN out : out[k] = gemini_results[j]
            /\ n >= 5 => out = SubSeq(gemini_results, 1, 5)

\* 5 Gemini records and an OpenAI record that was admitted behind them: the
\* slice removed the OpenAI record
C12_Witness ==
    /\ merge_ret.returned
    /\ Len(gemini_results) = 5
    /\ \E i \in DOMAIN openai_results : Admitted(i)
    /\ merge_ret.value = gemini_results

\* the admission rule applied to the records of l from the i-th on, acc being
\* the output list so far: a record is kept when it is a duplicate match of
\* no record of the output list and it has a real image or the output list
\* holds fewer than 3 records
RECURSIVE AdmissionRuleFrom(_, _, _)
AdmissionRuleFrom(l, i, acc) ==
    IF i > Len(l)
    THEN acc
    ELSE IF /\ \A k \in DOMAIN acc : ~DuplicateMatch(l[i], acc[k])
            /\ (HasRealImage(l[i].images) \/ Len(acc) < 3)
         THEN AdmissionRuleFrom(l, i + 1, Append(acc, l[i]))
         ELSE AdmissionRuleFrom(l, i + 1, acc)

\* C20: _merge_restaurant_results does not raise when a list is empty: with
\* an empty OpenAI list the output is the first 5 Gemini records, with an
\* empty Gemini list the output is the OpenAI records filtered by the
\* admission rule (its first 5), and with both lists empty the output is the
\* empty list.
C20_EmptyTierDegrades ==
    merge_ret.returned =>
        LET out == merge_ret.value
            filtered == AdmissionRuleFrom(openai_results, 1, <<>>)
        IN  /\ openai_results = <<>>
                  => out = SubSeq(gemini_results, 1, Min(5, Len(gemini_results)))
            /\ gemini_results = <<>>
                  => out = SubSeq(filtered, 1, Min(5, Len(filtered)))
            /\ (openai_results = <<>> /\ gemini_results = <<>>) => out = <<>>

---------------------------------------------------------------------------
(* Properties of _is_duplicate_restaurant (DupSpec) *)

\* C4: _is_duplicate_restaurant returns true exactly when some entry of the
\* list has a Jaccard similarity above 0.7 between the word sets of the two
\* lower-cased names and a city equal to the candidate's after lower-casing.
C4_DuplicateIffJaccardAndCity ==
    dup_ret.returned =>
        (dup_ret.value <=>
            \E k \in DOMAIN existing_list : DuplicateMatch(restaurant, existing_list[k]))

\* a duplicate found on a partial word overlap with the second entry of the
\* list, the first entry being no match
C4_Witness ==
    /\ dup_ret.returned
    /\ dup_ret.value
    /\ Len(existing_list) = 2
    /\ ~DuplicateMatch(restaurant, existing_list[1])
    /\ WordsOf(lower(restaurant.restaurant_name))
          # WordsOf(lower(existing_list[2].restaurant_name))

\* a name without a word that is empty or a single character
EmptyOrOneSeparator(n) == n = <<>> \/ (Len(n) = 1 /\ n[1] \in Whitespace)

\* C13 as stated: for every pair of names of which at least one is a single
\* character or empty, _similarity returns 0.0, so a record with such a name
\* is never judged a duplicate, whatever the cities.
C13_ShortNameNeverSimilar ==
    dup_ret.returned =>
        /\ \A k \in DOMAIN dup_sims :
              ( \/ Len(restaurant.restaurant_name) <= 1
                \/ Len(existing_list[k].restaurant_name) <= 1 )
                  => dup_sims[k].num = 0
        /\ Len(restaurant.restaurant_name) <= 1 => ~dup_ret.value

\* C13 amended: for every pair of names of which at least one is empty, or is
\* a single whitespace character, _similarity returns 0.0, so a record with
\* such a name is never judged a duplicate, whatever the cities.  A name of a
\* single other character is a name of one word: a record with such a name is
\* a duplicate of a record whose name is the same character in either letter
\* case and whose city is the same after lower-casing.
C13_EmptyNameNeverSimilar ==
    dup_ret.returned =>
        /\ \A k \in DOMAIN dup_sims :
              ( \/ EmptyOrOneSeparator(restaurant.restaurant_name)
                \/ EmptyOrOneSeparator(existing_list[k].restaurant_name) )
                  => dup_sims[k].num = 0
        /\ EmptyOrOneSeparator(restaurant.restaurant_name) => ~dup_ret.value
        /\ \A k \in DOMAIN existing_list :
              ( /\ Len(restaurant.restaurant_name) = 1
                /\ restaurant.restaurant_name[1] \notin Whitespace
                /\ lower(existing_list[k].restaurant_name)
                      = lower(restaurant.restaurant_name)
                /\ lower(existing_list[k].city) = lower(restaurant.city) )
                  => dup_ret.value

\* a record with an empty name tested against a list of two entries, one of
\* them with an empty name and the same city
C13_Witness ==
    /\ dup_ret.returned
    /\ restaurant.restaurant_name = <<>>
    /\ Len(existing_list) = 2
    /\ Len(dup_sims) = 2
    /\ \E k \in DOMAIN existing_list :
          /\ existing_list[k].restaurant_name = <<>>
          /\ existing_list[k].city = restaurant.city
    /\ \E k \in DOMAIN existing_list : existing_list[k].restaurant_name # <<>>

\* C16: for every record r, _is_duplicate_restaurant(r, []) is false.
C16_EmptyListNoDuplicate ==
    (dup_ret.returned /\ existing_list = <<>>) => ~dup_ret.value

\* a record with a name and a city tested against the empty list
C16_Witness ==
    /\ dup_ret.returned
    /\ existing_list = <<>>
    /\ restaurant.restaurant_name # <<>>
    /\ restaurant.city # <<>>
    /\ dup_sims = <<>>

---------------------------------------------------------------------------
(* Properties of _similarity (SimSpec) *)

\* C14: for every string x, _similarity("", x) and _similarity(x, "") are
\* 0.0, and so is the similarity of a pair in which a name consists of
\* whitespace only (its word set is empty).
C14_EmptyOrBlankIsZero ==
    LET blank(n) == \A i \in DOMAIN n : n[i] \in Whitespace
    IN  (blank(sim_s1) \/ blank(sim_s2)) =>
            /\ sim_ret.returned => sim_ret.value.num = 0
            /\ sim_ret_swapped.returned => sim_ret_swapped.value.num = 0

\* both calls have returned for the empty string against a name of two words
\* and for a name of separators only against a name of one word
C14_Witness ==
    /\ sim_ret.returned
    /\ sim_ret_swapped.returned
    /\ \/ sim_s1 = <<>> /\ Cardinality(WordsOf(sim_s2)) = 2
       \/ sim_s1 = NameBlank /\ Cardinality(WordsOf(sim_s2)) = 1

\* C15: for all names a and b, _similarity(a, b) equals _similarity(b, a).
C15_Symmetric ==
    (sim_ret.returned /\ sim_ret_swapped.returned) =>
        sim_ret.value.num * sim_ret_swapped.value.den
            = sim_ret_swapped.value.num * sim_ret.value.den

\* both calls have returned for two names with different numbers of words
\* and a word in common
C15_Witness ==
    /\ sim_ret.returned
    /\ sim_ret_swapped.returned
    /\ Cardinality(WordsOf(sim_s1)) # Cardinality(WordsOf(sim_s2))
    /\ WordsOf(sim_s1) \cap WordsOf(sim_s2) # {}
    /\ sim_ret.value.num > 0

---------------------------------------------------------------------------
(* Properties of search_restaurants (Spec) *)

\* the same records in the same order, images apart
SameButImages(a, b) ==
    /\ Len(a) = Len(b)
    /\ \A i \in DOMAIN a : a[i] = [b[i] EXCEPT !.images = a[i].images]

\* C7: in hybrid mode, when one provider call raises, the other provider is
\* still called; when the other returns, the request succeeds and the list
\* returned is the merge of the other's records with an empty list in the
\* place of the failed provider's (its images as the image service left them).
C7_HybridIsolatesOneFailure ==
    (mode = 3 /\ pc = "done") =>
        /\ openai_status = "raised" => gemini_status # "not_called"
        /\ gemini_status = "raised" => openai_status # "not_called"
        /\ (openai_status = "raised" /\ gemini_status = "returned") =>
              /\ response = "ok"
              /\ before_images = _merge_restaurant_results(<<>>, gemini_restaurants)
              /\ SameButImages(restaurants, before_images)
        /\ (gemini_status = "raised" /\ openai_status = "returned") =>
              /\ response = "ok"
              /\ before_images = _merge_restaurant_results(openai_restaurants, <<>>)
              /\ SameButImages(restaurants, before_images)

\* a hybrid request answered with two OpenAI records after the Gemini call raised
C7_Witness ==
    /\ mode = 3
    /\ pc = "done"
    /\ gemini_status = "raised"
    /\ openai_status = "returned"
    /\ response = "ok"
    /\ Len(restaurants) = 2

\* every provider call the mode makes has raised
AllProvidersFailed ==
    \/ mode = 1 /\ openai_status = "raised"
    \/ mode = 2 /\ gemini_status = "raised"
    \/ mode = 3 /\ openai_status = "raised" /\ gemini_status = "raised"

C9_ResponseAtMostFive ==
    response = "ok" => Len(restaurants) <= 5

\* the image service failed on record i: the image request failed, or the
\* processing of the record raised
EnrichmentFailed(i) == image_log[i] \in {"fetch_failed", "exception"}

\* C10 as stated: a record on which image enrichment fails is returned
\* unmodified, its images included, and the request still succeeds.
C10_FailedEnrichmentPassesThrough ==
    /\ \A i \in DOMAIN image_log : EnrichmentFailed(i) => restaurants[i] = before_images[i]
    /\ (pc = "done" /\ \E i \in DOMAIN image_log : EnrichmentFailed(i)) => response = "ok"

\* C10 amended: a record on which image enrichment fails is returned with its
\* images field set to the empty list and every other field unchanged, and the
\* request still succeeds.
C10_FailedEnrichmentClearsImages ==
    /\ \A i \in DOMAIN image_log :
          EnrichmentFailed(i) => restaurants[i] = [before_images[i] EXCEPT !.images = <<>>]
    /\ (pc = "done" /\ \E i \in DOMAIN image_log : EnrichmentFailed(i)) => response = "ok"

\* a request answered after the image request failed for a record that came
\* with an image URL and the processing of another record raised
C10_Witness ==
    /\ pc = "done"
    /\ response = "ok"
    /\ \E i \in DOMAIN image_log :
          image_log[i] = "fetch_failed" /\ before_images[i].images # <<>>
    /\ \E i \in DOMAIN image_log : image_log[i] = "exception"

\* both provider calls of a hybrid request have returned or raised
BothFinished ==
    /\ openai_status \in {"returned", "raised"}
    /\ gemini_status \in {"returned", "raised"}

\* C17: in hybrid mode the steps happen in the order dispatch, merge, enrich:
\* the merge starts only after both provider calls have finished (each has
\* returned or raised), and the image service runs only after the merge, on
\* the merged list.
C17_DispatchMergeEnrich ==
    mode = 3 =>
        /\ pc \in {"start", "hybrid_gemini", "in_openai_call", "in_gemini_call"}
              => (restaurants = <<>> /\ before_images = <<>> /\ image_log = <<>>)
        /\ pc \in {"hybrid_merge", "images", "respond", "done"} => BothFinished
        /\ pc = "hybrid_merge"
              => (restaurants = <<>> /\ before_images = <<>> /\ image_log = <<>>)
        /\ pc = "images"
              => /\ restaurants
                      = _merge_restaurant_results(openai_restaurants, gemini_restaurants)
                 /\ before_images = <<>>
                 /\ image_log = <<>>
        /\ pc \in {"respond", "done"}
              => /\ before_images
                      = _merge_restaurant_results(openai_restaurants, gemini_restaurants)
                 /\ Len(image_log) = Len(before_images)
                 /\ SameButImages(restaurants, before_images)

\* a hybrid request answered after both providers returned records, the merge
\* left one of them out and the image service fetched images for a merged
\* record
C17_Witness ==
    /\ mode = 3
    /\ pc = "done"
    /\ openai_status = "returned"
    /\ gemini_status = "returned"
    /\ Len(before_images) >= 2
    /\ Len(before_images) < Len(openai_restaurants) + Len(gemini_restaurants)
    /\ \E i \in DOMAIN image_log : image_log[i] = "fetched"

C19_NoNamelessReachesMerge ==
    pc = "hybrid_merge" =>
        /\ \A i \in DOMAIN openai_restaurants :
              openai_restaurants[i].restaurant_name # <<>>
        /\ \A i \in DOMAIN gemini_restaurants :
              gemini_restaurants[i].restaurant_name # <<>>

\* C21: once a user's shareable link has been created its token never
\* changes: the user's row keeps the token of the first insert, and every
\* successful create request of the user returns that token.
C21_TokenNeverChanges ==
    /\ \A i \in DOMAIN shareable_links :
          shareable_links[i].token = first_token[shareable_links[i].user_id]
    /\ (last.op = "create_link" /\ last.status = 200) =>
          last.token = first_token[last.user]

\* a create request that found the revoked link, reactivated it and returned
\* the first token
C21_Witness ==
    /\ last.op = "create_link"
    /\ last.status = 200
    /\ last.found
    /\ ~last.was_active
    /\ link_event[last.user] = "recreated"
    /\ last.token = first_token[last.user]

\* C22: the public page of a token is served only while the link is active:
\* a view of a user's token answered after the owner's revoke and before the
\* owner's next create request gets the 404 page, and a view answered after
\* a create request of the owner gets the page.
C22_ServedOnlyWhileActive ==
    [][(budget' < budget /\ last'.op = "view") =>
          \A u \in Users :
              last'.arg = first_token[u] =>
                  /\ link_event[u] = "revoked" => last'.status = 404
                  /\ link_event[u] \in {"created", "recreated"} => last'.status = 200]_vars

\* the token of a revoked link was viewed and got the 404 page, and the
\* owner has one request left to create the link again
C22_Witness ==
    /\ last.op = "view"
    /\ last.status = 404
    /\ \E u \in Users :
          /\ last.arg = first_token[u]
          /\ link_event[u] = "revoked"
          /\ \E i \in DOMAIN shareable_links :
                shareable_links[i].user_id = u /\ ~shareable_links[i].is_active

\* C30: revoking is idempotent and keeps the row: a revoke request that
\* finds the user's row, revoked or not, succeeds and leaves the row
\* inactive with its token; a revoke request gets 404 only when the user
\* never created a link; the owner's get request returns no link while the
\* row is inactive.
C30_RevokeIdempotent ==
    /\ last.op = "revoke_link" =>
          /\ last.status = 404 <=> first_token[last.user] = "none"
          /\ last.status # 404 =>
                /\ last.status = 200
                /\ \E i \in DOMAIN shareable_links :
                      /\ shareable_links[i].user_id = last.user
                      /\ ~shareable_links[i].is_active
                      /\ shareable_links[i].token = last.token
                      /\ shareable_links[i].token = first_token[last.user]
    /\ last.op = "get_link" =>
          /\ last.status = 200
          /\ (\E i \in DOMAIN shareable_links :
                  /\ shareable_links[i].user_id = last.user
                  /\ ~shareable_links[i].is_active)
                => (~last.found /\ last.token = "none" /\ last.rows = <<>>)

\* a revoke request on a link that was already revoked
C30_Witness ==
    /\ last.op = "revoke_link"
    /\ last.status = 200
    /\ last.found
    /\ ~last.was_active
    /\ link_event[last.user] = "revoked"

\* the step answers a request of the kind op: a request served in one step,
\* or the commit of a request that was waiting between its check and commit
Answered(op) ==
    /\ last'.op = op
    /\ \/ budget' < budget /\ inflight' = inflight
       \/ Len(inflight') < Len(inflight)

\* C23: a user's watchlist never holds two items with the same movie_id,
\* whatever the interleaving of add requests; an add request whose movie_id
\* is in the user's watchlist when the request is checked is rejected with
\* status 400, and an add request answered while the movie_id is in the
\* watchlist leaves the watchlist unchanged.
C23_NoDuplicateMovie ==
    /\ [](\A i, k \in DOMAIN watchlist_items :
              (/\ watchlist_items[i].user_id = watchlist_items[k].user_id
               /\ watchlist_items[i].movie_id = watchlist_items[k].movie_id)
                  => i = k)
    /\ [][Answered("add_to_watchlist") =>
              LET present == \E i \in DOMAIN watchlist_items :
                                 /\ watchlist_items[i].user_id = last'.user
                                 /\ watchlist_items[i].movie_id = last'.arg
              IN  /\ (present /\ budget' < budget) => last'.status = 400
                  /\ last'.status = 400 => present
                  /\ present => watchlist_items' = watchlist_items]_vars

\* two add requests of one user for one movie were served between each
\* other's check and commit: the second commit was refused and the watchlist
\* holds the movie once
C23_Witness ==
    /\ last.op = "add_to_watchlist"
    /\ last.status = 500
    /\ Len(SelectSeq(watchlist_items,
                     LAMBDA row : row.user_id = last.user /\ row.movie_id = last.arg)) = 1

\* C24: a user never has two saved-restaurant rows with the same
\* restaurant_id, whatever the interleaving of save requests; a save request
\* whose restaurant is in the user's list when the request is checked is
\* rejected with status 400, and a save request answered while the
\* restaurant is in the list leaves the list unchanged.
C24_NoDuplicateRestaurant ==
    /\ [](\A i, k \in DOMAIN saved_restaurants :
              (/\ saved_restaurants[i].user_id = saved_restaurants[k].user_id
               /\ saved_restaurants[i].restaurant_id = saved_restaurants[k].restaurant_id)
                  => i = k)
    /\ [][Answered("save_restaurant") =>
              LET present == \E i \in DOMAIN saved_restaurants :
                                 /\ saved_restaurants[i].user_id = last'.user
                                 /\ saved_restaurants[i].restaurant_id = last'.arg
              IN  /\ (present /\ budget' < budget) => last'.status = 400
                  /\ last'.status = 400 => present
                  /\ present => saved_restaurants' = saved_restaurants]_vars

\* the rows of user u in the four tables
OwnedBy(u) ==
    <<RowsOf(watchlist_items, u), RowsOf(saved_restaurants, u),
      RowsOf(user_settings, u), RowsOf(shareable_links, u)>>

\* C29: an operation of an authenticated user reads and changes only rows of
\* that user: a step changes the rows of user b only when it answers a
\* request of b, and the rows and the link token in the response to a user
\* belong to that user.
C29_OnlyOwnRows ==
    /\ [][\A b \in Users :
              OwnedBy(b)' # OwnedBy(b) =>
                  /\ last'.user = b
                  /\ \/ budget' < budget /\ inflight' = inflight
                     \/ Len(inflight') < Len(inflight)]_vars
    /\ [](last.user \in Users =>
              /\ \A i \in DOMAIN last.rows : last.rows[i].user_id = last.user
              /\ last.token # "none" =>
                    \A i \in DOMAIN shareable_links :
                        shareable_links[i].token = last.token
                            => shareable_links[i].user_id = last.user)

\* a user removed a movie from the watchlist while the other user has the
\* same movie, a saved restaurant, settings and a link, all still in place
C29_Witness ==
    /\ last.op = "remove_from_watchlist"
    /\ last.status = 204
    /\ \E b \in Users \ {last.user} :
          /\ \E i \in DOMAIN watchlist_items :
                /\ watchlist_items[i].user_id = b
                /\ watchlist_items[i].movie_id = last.arg
          /\ RowsOf(saved_restaurants, b) # <<>>
          /\ RowsOf(user_settings, b) # <<>>
          /\ RowsOf(shareable_links, b) # <<>>

\* C25: the threshold is strict: an entry of the same city whose name has a
\* Jaccard similarity of exactly 0.7 with the candidate's name (7 shared
\* words of 10 distinct ones) is not what makes the candidate a duplicate,
\* and an entry of the same city with a similarity above 0.7 makes it one.
C25_ThresholdStrict ==
    dup_ret.returned =>
        \A i \in DOMAIN existing_list :
            LET A == WordsOf(lower(restaurant.restaurant_name))
                B == WordsOf(lower(existing_list[i].restaurant_name))
                shared == Cardinality(A \cap B)
                distinct == Cardinality(A \cup B)
                same_city == lower(restaurant.city) = lower(existing_list[i].city)
            IN  /\ (same_city /\ distinct > 0 /\ 10 * shared = 7 * distinct) =>
                      ~(dup_ret.value /\ Len(dup_sims) = i)
                /\ (same_city /\ 10 * shared > 7 * distinct) =>
                      (dup_ret.value /\ Len(dup_sims) <= i)

\* a name of ten words was tested against the record of the same city whose
\* name is seven of these words, and against nothing else: not a duplicate
C25_Witness ==
    /\ dup_ret.returned
    /\ ~dup_ret.value
    /\ Len(existing_list) = 1
    /\ lower(restaurant.city) = lower(existing_list[1].city)
    /\ Cardinality(WordsOf(lower(restaurant.restaurant_name))) = 10
    /\ Cardinality(WordsOf(lower(existing_list[1].restaurant_name))) = 7
    /\ WordsOf(lower(existing_list[1].restaurant_name))
           \subseteq WordsOf(lower(restaurant.restaurant_name))
    /\ dup_sims = <<[num |-> 7, den |-> 10]>>

\* C26: each OpenAI record is tested against the output list as it stands,
\* OpenAI records admitted before it included: an admitted OpenAI record is
\* a duplicate of no record of the list it was tested against, and in the
\* list before the slice no record after the Gemini records is a duplicate
\* of a record placed before it.
C26_AdmittedMatchesNothingBefore ==
    merge_ret.returned =>
        /\ \A i \in DOMAIN openai_results : Admitted(i) => ~DuplicateAt(i)
        /\ \A p \in (Len(gemini_results) + 1)..Len(PreTruncation) :
              \A q \in 1..(p - 1) :
                  /\ ~DuplicateMatch(PreTruncation[p], PreTruncation[q])
                  /\ ~DuplicateMatch(PreTruncation[q], PreTruncation[p])

\* two OpenAI records were admitted behind a Gemini record, and an OpenAI
\* record that matches no Gemini record was left out as a duplicate of an
\* OpenAI record admitted before it
C26_Witness ==
    /\ merge_ret.returned
    /\ gemini_results # <<>>
    /\ Len(PreTruncation) >= Len(gemini_results) + 2
    /\ \E j \in DOMAIN openai_results :
          /\ NoPrimaryMatch(j)
          /\ EarlierSecondaryMatch(j)
          /\ MeetsHeuristic(j)
          /\ ~Admitted(j)

AllImagesValid(record) ==
    /\ record.images # <<>>
    /\ \A k \in DOMAIN record.images : _is_valid_image_url(record.images[k])

\* C28: fetch_images_for_restaurants returns as many records as it was
\* given, in the same order, and changes no field of a record but images; a
\* record whose images are all valid direct image URLs is returned with its
\* images unchanged, and no image request is made for it.
C28_EnrichmentKeepsRecords ==
    pc = "respond" =>
        /\ SameButImages(restaurants, before_images)
        /\ before_images # <<>> => Len(image_log) = Len(before_images)
        /\ \A i \in DOMAIN image_log :
              AllImagesValid(before_images[i]) =>
                  /\ restaurants[i] = before_images[i]
                  /\ image_log[i] = "reused"

\* a list of two records went through the image service: the first came with
\* two valid URLs and kept them, for the second images were fetched
C28_Witness ==
    /\ pc = "respond"
    /\ Len(before_images) = 2
    /\ AllImagesValid(before_images[1])
    /\ Len(before_images[1].images) = 2
    /\ restaurants[1] = before_images[1]
    /\ image_log[1] = "reused"
    /\ image_log[2] = "fetched"
    /\ restaurants[2].images # before_images[2].images

====
